---- MODULE Spec2Model ----
(***************************************************************************)
(* Relay event ingestion and notification pipeline of the Trustroots       *)
(* nostr email notification daemon (src/main.go, with the e-mail service   *)
(* of src/Dockerfile).  One task per relay reads EVENT frames, checks the  *)
(* SQLite table processed_notes, matches the event against the watched     *)
(* users, verifies the sender against the user directory, queues an        *)
(* e-mail job and marks the event id as processed.                         *)
(*                                                                         *)
(* Strings are sequences of one-character strings, so that substring       *)
(* containment, case folding, hex, base64 and bech32 are computed.         *)
(***************************************************************************)
EXTENDS Integers, Sequences, FiniteSets, Bags, TLC

(***************************************************************************)
(* Strings                                                                 *)
(***************************************************************************)

\* strings.Contains(s, sub)
Contains(s, sub) ==
    \E i \in 0..(Len(s) - Len(sub)) : SubSeq(s, i + 1, i + Len(sub)) = sub

UpperChars == <<"A", "B", "C", "D", "E", "F", "G", "H", "I", "J", "K", "L", "M",
                "N", "O", "P", "Q", "R", "S", "T", "U", "V", "W", "X", "Y", "Z">>

LowerChars == <<"a", "b", "c", "d", "e", "f", "g", "h", "i", "j", "k", "l", "m",
                "n", "o", "p", "q", "r", "s", "t", "u", "v", "w", "x", "y", "z">>

\* unicode.ToLower on one character
LowerChar(c) ==
    IF \E i \in 1..Len(UpperChars) : UpperChars[i] = c
    THEN LowerChars[CHOOSE i \in 1..Len(UpperChars) : UpperChars[i] = c]
    ELSE c

\* strings.ToLower(s)
ToLower(s) == [i \in 1..Len(s) |-> LowerChar(s[i])]

\* the elements of a sequence
Range(s) == {s[i] : i \in 1..Len(s)}

(***************************************************************************)
(* encoding/hex, encoding/base64                                           *)
(***************************************************************************)

HexDigits == <<"0", "1", "2", "3", "4", "5", "6", "7", "8", "9",
               "a", "b", "c", "d", "e", "f">>

\* the value of one hex digit, upper or lower case; -1 when it is none
HexVal(c) ==
    LET l == LowerChar(c)
    IN  IF \E i \in 1..Len(HexDigits) : HexDigits[i] = l
        THEN (CHOOSE i \in 1..Len(HexDigits) : HexDigits[i] = l) - 1
        ELSE -1

\* hex.DecodeString succeeds: even length, every character a hex digit
HexOk(h) == Len(h) % 2 = 0 /\ \A i \in 1..Len(h) : HexVal(h[i]) >= 0

\* hex.DecodeString: the bytes of a valid hex string
HexDecode(h) ==
    [i \in 1..(Len(h) \div 2) |-> 16 * HexVal(h[2 * i - 1]) + HexVal(h[2 * i])]

Base64Chars == {"A", "B", "C", "D", "E", "F", "H", "L", "O", "G", "k",
                "a", "b", "c", "d", "e", "f", "h", "l", "o",
                "0", "1", "2", "3", "4", "5", "6", "7", "8", "9", "+", "/"}

\* base64.StdEncoding.DecodeString succeeds: padded to a multiple of four,
\* base64 characters only, at most two '=' and only at the end
Base64Ok(s) ==
    /\ Len(s) % 4 = 0
    /\ \A i \in 1..Len(s) :
          \/ s[i] \in Base64Chars
          \/ /\ s[i] = "="
             /\ i >= Len(s) - 1
             /\ \A j \in i..Len(s) : s[j] = "="

(***************************************************************************)
(* btcutil/bech32                                                          *)
(***************************************************************************)

Charset == <<"q", "p", "z", "r", "y", "9", "x", "8", "g", "f", "2", "t",
             "v", "d", "w", "0", "s", "3", "j", "n", "5", "4", "k", "h",
             "c", "e", "6", "m", "u", "a", "7", "l">>

RECURSIVE Pow2(_)
Pow2(n) == IF n = 0 THEN 1 ELSE 2 * Pow2(n - 1)

RECURSIVE XorBits(_, _)
XorBits(a, b) ==
    IF a = 0 THEN b
    ELSE IF b = 0 THEN a
    ELSE ((a + b) % 2) + 2 * XorBits(a \div 2, b \div 2)

\* bitwise exclusive or of two naturals (each operand is evaluated once)
Xor(a, b) == CHOOSE r \in {XorBits(x, y) : x \in {a}, y \in {b}} : TRUE

RECURSIVE BitsOf(_, _)
\* the bytes as one big-endian bit sequence, w bits per value
BitsOf(data, w) ==
    IF Len(data) = 0 THEN <<>>
    ELSE [i \in 1..w |-> (data[1] \div Pow2(w - i)) % 2] \o BitsOf(Tail(data), w)

RECURSIVE BitsVal(_)
BitsVal(bits) ==
    IF Len(bits) = 0 THEN 0
    ELSE 2 * BitsVal(SubSeq(bits, 1, Len(bits) - 1)) + bits[Len(bits)]

\* bech32.ConvertBits(data, from, to, pad = true): regroup, zero-padding the
\* last group
ConvertBitsPad(data, from, to) ==
    LET bits   == BitsOf(data, from)
        n      == (Len(bits) + to - 1) \div to
        padded == bits \o [i \in 1..(n * to - Len(bits)) |-> 0]
    IN  [g \in 1..n |-> BitsVal(SubSeq(padded, (g - 1) * to + 1, g * to))]

Generator == <<996825010, 642813549, 513874426, 1027748829, 705979059>>

RECURSIVE GenXor(_, _, _)
GenXor(chk, top, i) ==
    IF i > 5 THEN chk
    ELSE GenXor(IF (top \div Pow2(i - 1)) % 2 = 1 THEN Xor(chk, Generator[i]) ELSE chk,
                top, i + 1)

\* one round of bech32Polymod: the checksum chk after the value v
PolymodStep(chk, v) ==
    GenXor(Xor((chk % Pow2(25)) * 32, v), chk \div Pow2(25), 1)

RECURSIVE PolymodRange(_, _, _, _)
\* the rounds for values[lo..hi], the first half before the second
PolymodRange(values, chk, lo, hi) ==
    IF lo > hi THEN chk
    ELSE IF lo = hi THEN PolymodStep(chk, values[lo])
    ELSE LET mid == (lo + hi) \div 2
         IN  CHOOSE r \in {PolymodRange(values, c, mid + 1, hi) :
                              c \in {PolymodRange(values, chk, lo, mid)}} : TRUE

\* bech32Polymod over the values, starting from chk
Polymod(values, chk) ==
    CHOOSE r \in {PolymodRange(v, c, 1, Len(v)) : v \in {values}, c \in {chk}} : TRUE

\* the human-readable part "npub", expanded: high bits, 0, low bits
\* ('n' = 110, 'p' = 112, 'u' = 117, 'b' = 98)
HrpExpand == <<3, 3, 3, 3, 0, 14, 16, 21, 2>>

\* the six checksum values of a data part under the prefix "npub"
Checksum(data) ==
    LET PM(pm) == <<(pm \div Pow2(25)) % 32, (pm \div Pow2(20)) % 32, (pm \div Pow2(15)) % 32,
                    (pm \div Pow2(10)) % 32, (pm \div Pow2(5)) % 32, pm % 32>>
    IN  CHOOSE r \in {PM(v) : v \in {Xor(Polymod(HrpExpand \o data
                                                   \o <<0, 0, 0, 0, 0, 0>>, 1), 1)}} : TRUE

\* the characters of a sequence of 5-bit values
ToChars(vals) == [j \in 1..Len(vals) |-> Charset[vals[j] + 1]]

\* bech32.Encode("npub", data)
Bech32Encode(data) ==
    CHOOSE r \in {<<"n", "p", "u", "b", "1">> \o ToChars(d) \o ToChars(c) :
                     d \in {data}, c \in {Checksum(data)}} : TRUE

\* min(32, len(s)) characters of s
Prefix32(s) == SubSeq(s, 1, IF Len(s) < 32 THEN Len(s) ELSE 32)

\* hexToNpub of main.go: the bech32 form of a hex key; for a string that is
\* not hex, the placeholder "npub1" + prefix + "..."
hexToNpub(hexPubkey) ==
    IF ~HexOk(hexPubkey)
    THEN <<"n", "p", "u", "b", "1">> \o Prefix32(hexPubkey) \o <<".", ".", ".">>
    ELSE Bech32Encode(ConvertBitsPad(HexDecode(hexPubkey), 8, 5))

\* the 5-bit value of a bech32 character; -1 when it is none
CharsetVal(c) ==
    IF \E i \in 1..Len(Charset) : Charset[i] = c
    THEN (CHOOSE i \in 1..Len(Charset) : Charset[i] = c) - 1
    ELSE -1

\* bech32.Decode(s) with the check hrp = "npub" that npubToHex makes after
\* it: the 5-bit data without the checksum, or an error for a string that is
\* too short, mixes cases, has no separator or a short data part, has a
\* character outside the charset, has a wrong checksum or another prefix
Bech32Decode(s) ==
    LET mixed == /\ \E i \in 1..Len(s) : s[i] \in Range(UpperChars)
                 /\ \E i \in 1..Len(s) : s[i] \in Range(LowerChars)
        l     == ToLower(s)
        ones  == {i \in 1..Len(l) : l[i] = "1"}
        one   == CHOOSE i \in ones : \A k \in ones : k <= i
        hrp   == SubSeq(l, 1, one - 1)
        vals  == [i \in 1..(Len(l) - one) |-> CharsetVal(l[one + i])]
        Bad   == [err |-> TRUE, data |-> <<>>]
    IN  IF Len(s) < 8 \/ Len(s) > 90 \/ mixed \/ ones = {} THEN Bad
        ELSE IF one < 2 \/ one + 7 > Len(l) THEN Bad
        ELSE IF \E i \in 1..Len(vals) : vals[i] < 0 THEN Bad
        ELSE IF hrp # <<"n", "p", "u", "b">> THEN Bad
        ELSE IF (CHOOSE r \in {Polymod(v, 1) : v \in {HrpExpand \o vals}} : TRUE) # 1
        THEN Bad
        ELSE [err |-> FALSE, data |-> SubSeq(vals, 1, Len(vals) - 6)]

\* ConvertBitsNoPad that accepts no bits left over at all
ConvertBitsNoPadExact(data, from, to) ==
    LET bits == BitsOf(data, from)
        n    == Len(bits) \div to
    IN  IF Len(bits) % to # 0
        THEN [err |-> TRUE, v |-> <<>>]
        ELSE [err |-> FALSE,
              v |-> [g \in 1..n |-> BitsVal(SubSeq(bits, (g - 1) * to + 1, g * to))]]

\* bech32.ConvertBits(data, from, to, pad = false): regroup; the bits left
\* over must be fewer than five and all zero
ConvertBitsNoPad(data, from, to) ==
    LET bits == BitsOf(data, from)
        n    == Len(bits) \div to
        rest == SubSeq(bits, n * to + 1, Len(bits))
    IN  IF Len(rest) > 4 \/ \E i \in 1..Len(rest) : rest[i] # 0
        THEN [err |-> TRUE, v |-> <<>>]
        ELSE [err |-> FALSE,
              v |-> [g \in 1..n |-> BitsVal(SubSeq(bits, (g - 1) * to + 1, g * to))]]

RECURSIVE HexEncode(_)
\* hex.EncodeToString
HexEncode(bytes) ==
    IF Len(bytes) = 0 THEN <<>>
    ELSE <<HexDigits[(bytes[1] \div 16) + 1], HexDigits[(bytes[1] % 16) + 1]>>
             \o HexEncode(Tail(bytes))

\* npubToHex of the pooled listener: the hex key of an npub string
npubToHex(npub) ==
    LET d == CHOOSE r \in {Bech32Decode(v) : v \in {npub}} : TRUE
    IN  IF d.err THEN [err |-> TRUE, hex |-> <<>>]
        ELSE LET c == ConvertBitsNoPad(d.data, 5, 8)
             IN  IF c.err THEN [err |-> TRUE, hex |-> <<>>]
                 ELSE [err |-> FALSE, hex |-> HexEncode(c.v)]

(***************************************************************************)
(* The watch-list, the user directory and the frames the relays may send   *)
(***************************************************************************)

\* binary identities, in hex (keys are shortened to one byte)
HexA == <<"a", "1">>

HexB == <<"b", "2">>

HexC == <<"c", "3">>

\* the keys that occur, and hexToNpub of each (computed once)
KnownKeys == {HexA, HexB, HexC}

NpubOf == [h \in KnownKeys |-> hexToNpub(h)]

Npub(h) == IF h \in KnownKeys THEN NpubOf[h] ELSE hexToNpub(h)

Domain == <<"@", "t", "r", "u", "s", "t", "r", "o", "o", "t", "s", ".", "o", "r", "g">>

\* User documents {username, email, nostrNpub}: the watch-list (validNpubs)
Alice == [Username |-> <<"a", "l">>, Email |-> "alice@example", NostrNpub |-> Npub(HexA)]

Bob == [Username |-> <<"b", "o">>, Email |-> "bob@example", NostrNpub |-> Npub(HexB)]

\* npubToUser of listenToNostrRelays, as the set of its values
Users == {Alice, Bob}

\* npubToHex of the watched users (computed once)
HexOfNpub == [n \in {u.NostrNpub : u \in Users} |-> npubToHex(n)]

\* the users collection that verifyNIP5FromDB queries; HexC has no document
Directory == {Alice, Bob}

\* the configured relay URLs
Relays == {"wss://r1", "wss://r2"}

PTag(v) == <<"p", v>>

\* an event object as the relay sends it
Ev(id, pubkey, kind, tags, content) ==
    [ID |-> id, PubKey |-> pubkey, Kind |-> kind, Tags |-> tags, Content |-> content]

\* the event objects the relays may send in EVENT frames
Events ==
    { \* a note that names alice by her npub in a p tag
      Ev("e1", HexB, 1, <<PTag(Alice.NostrNpub)>>, <<"h", "i">>),
      \* a note that carries alice's hex key in a p tag, as relays send it
      Ev("e2", HexB, 1, <<PTag(HexA)>>, <<"h", "i">>),
      \* a note of an unknown sender that names alice in its text
      Ev("e3", HexC, 1, <<>>, <<"h", "i", " ", "A", "L">>),
      \* a direct message to alice and bob
      Ev("e4", HexB, 4, <<PTag(Alice.NostrNpub), PTag(Bob.NostrNpub)>>, <<"a", "G", "k", "=">>),
      \* a direct message with alice's hex key in the p tag
      Ev("e5", HexB, 4, <<PTag(HexA)>>, <<"a", "G", "k", "=">>),
      \* a direct message of an unknown sender whose content is not base64
      Ev("e6", HexC, 4, <<PTag(Alice.NostrNpub)>>, <<"h", "i">>),
      \* two direct messages of an unknown sender that differ in content
      Ev("e7", HexC, 4, <<<<"e">>, PTag(Alice.NostrNpub)>>, <<"a", "G", "k", "=">>),
      Ev("e8", HexC, 4, <<<<"e">>, PTag(Alice.NostrNpub)>>, <<"a", "G", "E", "=">>),
      \* a NIP-17 message
      Ev("e9", HexB, 14, <<PTag(Alice.NostrNpub)>>, <<"a", "G", "k", "=">>),
      \* a NIP-17 message of the other kind that names both users
      Ev("e10", HexB, 15, <<PTag(Alice.NostrNpub), PTag(Bob.NostrNpub)>>,
         <<"h", "i", " ", "A", "L">>),
      \* an event of a kind the switch has no case for
      Ev("e11", HexB, 7, <<PTag(Alice.NostrNpub)>>, <<"a", "G", "k", "=">>) }

EventIDs == {e.ID : e \in Events}

\* cur[r] when relay r holds no event
NoEvent == [ID |-> "none"]

\* usr[r] when relay r processes no recipient
NoUser == [Email |-> "none"]

Fallback == <<"u", "n", "v", "e", "r", "i", "f", "i", "e", "d">> \o Domain

Placeholder == <<"[Encrypted Direct Message - Content not available]">>

\* bounds of the model
MaxDeliveries == 2

MaxFaults == 1

(***************************************************************************)
(* Matching, verification, the processed_notes table, the e-mail service   *)
(***************************************************************************)

\* mentionsNpub: the npub occurs in the content, or a p tag carries it
mentionsNpub(event, npub) ==
    \/ Contains(event.Content, npub)
    \/ \E i \in 1..Len(event.Tags) :
          /\ Len(event.Tags[i]) >= 2
          /\ event.Tags[i][1] = "p"
          /\ event.Tags[i][2] = npub

\* the abbreviations map of mentionsUser
abbreviations ==
    { <<<<"t", "h", "e", "f", "r", "i", "e", "n", "d", "l", "y", "h", "o", "s", "t">>,
        <<"t", "f", "h">>>>,
      <<<<"n", "o", "s", "t", "r", "o", "o", "t", "s">>, <<"n", "o", "s", "t", "r">>>>,
      <<<<"n", "o", "s", "p", "o", "o", "n", "s">>, <<"n", "o", "s", "p", "o", "o", "n", "s">>>> }

\* mentionsUser: by npub, by user name in any case, by "@" + user name, or by
\* a known abbreviation of the user name
mentionsUser(event, user) ==
    LET username == user.Username
        lower    == ToLower(event.Content)
    IN  \/ mentionsNpub(event, user.NostrNpub)
        \/ Contains(lower, ToLower(username))
        \/ \E variation \in {ToLower(username), <<"@">> \o ToLower(username),
                             <<"@">> \o username} : Contains(lower, variation)
        \/ \E ab \in abbreviations : ab[1] = username /\ Contains(lower, ab[2])

\* isDirectMessageForUser of main.go: a p tag carries user.NostrNpub
isDirectMessageForUser(event, user) ==
    \E i \in 1..Len(event.Tags) :
        /\ Len(event.Tags[i]) >= 2
        /\ event.Tags[i][1] = "p"
        /\ event.Tags[i][2] = user.NostrNpub

\* validateNIP4Message that accepts every content
validateNIP4MessageAny(event) == TRUE

\* validateNIP4Message: the content decodes as standard base64
validateNIP4Message(event) == Base64Ok(event.Content)

\* verifyNIP5FromDB that takes the username of a document of another key
verifyNIP5FromDBOther(pubkey, reachable) ==
    LET npub  == Npub(pubkey)
        found == {d \in Directory : d.NostrNpub = npub}
    IN  IF ~reachable THEN [isVerified |-> FALSE, nip5 |-> <<>>, err |-> TRUE]
        ELSE IF found = {} THEN [isVerified |-> FALSE, nip5 |-> <<>>, err |-> FALSE]
        ELSE [isVerified |-> TRUE,
              nip5 |-> (CHOOSE d \in Directory : d \notin found).Username \o Domain,
              err |-> FALSE]

\* verifyNIP5FromDB that reports a failed query as "no document"
verifyNIP5FromDBSilent(pubkey, reachable) ==
    LET npub  == Npub(pubkey)
        found == {d \in Directory : d.NostrNpub = npub}
    IN  IF ~reachable \/ found = {} THEN [isVerified |-> FALSE, nip5 |-> <<>>, err |-> FALSE]
        ELSE [isVerified |-> TRUE,
              nip5 |-> (CHOOSE d \in found : TRUE).Username \o Domain,
              err |-> FALSE]

\* verifyNIP5FromDB: (isVerified, senderNIP5, err) for a sender; the lookup
\* itself fails when the directory cannot be queried
verifyNIP5FromDB(pubkey, reachable) ==
    LET npub  == Npub(pubkey)
        found == {d \in Directory : d.NostrNpub = npub}
    IN  IF ~reachable THEN [isVerified |-> FALSE, nip5 |-> <<>>, err |-> TRUE]
        ELSE IF found = {} THEN [isVerified |-> FALSE, nip5 |-> <<>>, err |-> FALSE]
        ELSE [isVerified |-> TRUE,
              nip5 |-> (CHOOSE d \in found : TRUE).Username \o Domain,
              err |-> FALSE]

\* Proceeds that goes on after a failed lookup (fail open)
ProceedsFailOpen(v, skip) == v.err \/ v.isVerified \/ skip

\* Proceeds without the return on an unverified sender
ProceedsUnverified(v, skip) == ~(v.err /\ ~skip)

\* whether processMention / processDirectMessage go on to the e-mail: without
\* --skip-nip5 they return on a lookup error and on an unverified sender
Proceeds(v, skip) == ~(v.err /\ ~skip) /\ ~(~v.isVerified /\ ~skip)

\* SenderLabel without the fallback assignment
SenderLabelUnset(v) == v.nip5

\* senderNIP5 once the checks are passed: the label found, or the fallback
SenderLabel(v) == IF v.err \/ ~v.isVerified THEN Fallback ELSE v.nip5

\* MatchedUsers with the direct-message case as the default of the switch
MatchedUsersDefault(event) ==
    IF event.Kind = 1 THEN {u \in Users : mentionsUser(event, u)}
    ELSE {u \in Users : isDirectMessageForUser(event, u)}

\* the users the switch on event.Kind hands to processMention (kind 1) or
\* processDirectMessage (kind 4); kinds 14 and 15 are only logged
MatchedUsers(event) ==
    IF event.Kind = 1 THEN {u \in Users : mentionsUser(event, u)}
    ELSE IF event.Kind = 4 THEN {u \in Users : isDirectMessageForUser(event, u)}
    ELSE {}

\* hexToNpub of the pooled listener: an error for a string that is not hex
hexToNpubPool(hexPubkey) ==
    IF ~HexOk(hexPubkey) THEN [err |-> TRUE, npub |-> <<>>]
    ELSE [err |-> FALSE, npub |-> Npub(hexPubkey)]

\* verifyNIP5FromDB of the pooled listener
verifyNIP5FromDBPool(hexPubkey, reachable) ==
    LET n == hexToNpubPool(hexPubkey)
    IN  IF n.err THEN [isVerified |-> FALSE, nip5 |-> <<>>, err |-> TRUE]
        ELSE IF ~reachable THEN [isVerified |-> FALSE, nip5 |-> <<>>, err |-> TRUE]
        ELSE IF \E d \in Directory : d.NostrNpub = n.npub
        THEN [isVerified |-> TRUE,
              nip5 |-> (CHOOSE d \in Directory : d.NostrNpub = n.npub).Username \o Domain,
              err |-> FALSE]
        ELSE [isVerified |-> FALSE, nip5 |-> <<>>, err |-> FALSE]

\* isDirectMessageForUser of the pooled listener: the p tags are compared
\* with the hex form of the user's npub
isDirectMessageForUserPool(event, user) ==
    LET h == IF user.NostrNpub \in DOMAIN HexOfNpub THEN HexOfNpub[user.NostrNpub]
             ELSE npubToHex(user.NostrNpub)
    IN  /\ ~h.err
        /\ \E i \in 1..Len(event.Tags) :
              /\ Len(event.Tags[i]) >= 2
              /\ event.Tags[i][1] = "p"
              /\ event.Tags[i][2] = h.hex

\* the users processEvent of the pooled listener hands to
\* processDirectMessage: kind 4 only
MatchedUsersPool(event) ==
    IF event.Kind = 4 THEN {u \in Users : isDirectMessageForUserPool(event, u)}
    ELSE {}

\* isNoteProcessed with the count compared to one
isNoteProcessedOffByOne(db, eventID) ==
    Cardinality({row \in db : row.event_id = eventID}) > 1

\* isNoteProcessed: SELECT COUNT(*) FROM processed_notes WHERE event_id = ?
isNoteProcessed(db, eventID) == Cardinality({row \in db : row.event_id = eventID}) > 0

\* markNoteProcessed as INSERT OR REPLACE
markNoteProcessedReplace(db, eventID, relayURL, userEmail) ==
    {row \in db : row.event_id # eventID}
        \cup {[event_id |-> eventID, relay_url |-> relayURL, user_email |-> userEmail]}

\* markNoteProcessed: INSERT OR IGNORE under PRIMARY KEY (event_id)
markNoteProcessed(db, eventID, relayURL, userEmail) ==
    IF \E row \in db : row.event_id = eventID
    THEN db
    ELSE db \cup {[event_id |-> eventID, relay_url |-> relayURL, user_email |-> userEmail]}

\* the EmailJob that the e-mail service renders for an event, a recipient and
\* a sender label: the recipient address, the label of the subject line and
\* the template data EventID, EventContent, SenderNpub
EmailJob(template, event, recipientUser, senderNIP5) ==
    [To |-> recipientUser.Email, Template |-> template, SenderNIP5 |-> senderNIP5,
     EventID |-> event.ID, EventContent |-> event.Content, SenderNpub |-> event.PubKey]

\* ProcessNostrDirectMessage: render the template, then QueueEmailJob; a
\* rendering error returns before anything is queued
ProcessNostrDirectMessage(q, event, recipientUser, senderNIP5, rendered) ==
    IF rendered
    THEN q (+) SetToBag({EmailJob("nostr_direct_message", event, recipientUser, senderNIP5)})
    ELSE q

\* ProcessNostrMention: the same for a mention
ProcessNostrMention(q, event, recipientUser, senderNIP5, rendered) ==
    IF rendered
    THEN q (+) SetToBag({EmailJob("nostr_mention", event, recipientUser, senderNIP5)})
    ELSE q

\* notificationEvent without the replacement of the content
notificationEventUnchanged(event) == event

\* the event processDirectMessage hands to the e-mail service: a copy of the
\* event with the content replaced
notificationEvent(event) == [event EXCEPT !.Content = Placeholder]

\* the npubs of the watched users, as getNpubsFromUsers collects them
getNpubsFromUsers == {u.NostrNpub : u \in Users}

\* the REQ message connectToRelay writes at Unix time now
subscribeMsg(now) ==
    [type |-> "REQ", subID |-> <<"sub_", now>>,
     filter |-> [kinds |-> {1, 4, 14, 15}, p |-> getNpubsFromUsers, since |-> now]]

\* getHexPubkeysFromUsers of the pooled listener: npubToHex of every npub of
\* the watch-list, without those that do not convert
getHexPubkeysFromUsers ==
    {HexOfNpub[n].hex : n \in {m \in getNpubsFromUsers : ~HexOfNpub[m].err}}

\* the filter the pooled listener builds once, at Unix time now, and hands to
\* pool.SubMany for all the relays: direct messages of the last hour
poolFilter(now) ==
    [kinds |-> {4}, p |-> getHexPubkeysFromUsers, since |-> now - 3600]

(***************************************************************************)
(* Frames                                                                  *)
(***************************************************************************)

\* a JSON value of a frame: its type and, for a string, an array or an event
\* object, its content
JText == [t |-> "text"]
JNull == [t |-> "null"]
JNumber == [t |-> "number"]
JObject == [t |-> "object"]
JString(v) == [t |-> "string", v |-> v]
JArray(v) == [t |-> "array", v |-> v]
JEvent(e) == [t |-> "event", v |-> e]

\* the events by their ids
EventOf(id) == CHOOSE e \in Events : e.ID = id

\* the NostrEvent that json.Unmarshal leaves untouched
ZeroEvent == Ev("", <<>>, 0, <<>>, <<>>)

\* the frames a relay may send
FrameList ==
    << JText,                                              \* not JSON
       JObject,                                            \* JSON, not an array
       JArray(<<JString("EVENT")>>),                       \* one element
       JArray(<<JNumber, JString("s"), JEvent(EventOf("e5"))>>),
       JArray(<<JString("NOTICE"), JString("m")>>),
       JArray(<<JString("EOSE"), JString("s")>>),
       JArray(<<JString("OK"), JString("s"), JEvent(EventOf("e5"))>>),
       JArray(<<JString("EVENT"), JString("s")>>),
       JArray(<<JString("EVENT"), JString("s"), JObject>>), \* fields of wrong types
       JArray(<<JString("EVENT"), JString("s"), JString("x")>>),
       JArray(<<JString("EVENT"), JString("s"), JNull>>),
       JArray(<<JString("EVENT"), JString("s"), JEvent(EventOf("e4"))>>),
       JArray(<<JString("EVENT"), JString("s"), JEvent(EventOf("e6"))>>) >>

\* json.Unmarshal(msgBytes, &messages) into []json.RawMessage
UnmarshalMessages(f) ==
    IF f.t = "array" THEN [err |-> FALSE, v |-> f.v]
    ELSE IF f.t = "null" THEN [err |-> FALSE, v |-> <<>>]
    ELSE [err |-> TRUE, v |-> <<>>]

\* json.Unmarshal(messages[0], &msgType) into a string
UnmarshalString(j) ==
    IF j.t = "string" THEN [err |-> FALSE, v |-> j.v]
    ELSE IF j.t = "null" THEN [err |-> FALSE, v |-> ""]
    ELSE [err |-> TRUE, v |-> ""]

\* json.Unmarshal(messages[2], &event) into a NostrEvent
UnmarshalEvent(j) ==
    IF j.t = "event" THEN [err |-> FALSE, v |-> j.v]
    ELSE IF j.t = "null" THEN [err |-> FALSE, v |-> ZeroEvent]
    ELSE [err |-> TRUE, v |-> ZeroEvent]

\* DecodeFrame that takes the third element of any frame as an event
DecodeFrameAnyType(f) ==
    LET messages == UnmarshalMessages(f)
        NoFrame == [ok |-> FALSE, event |-> NoEvent]
    IN  IF messages.err \/ Len(messages.v) < 2 THEN NoFrame
        ELSE LET msgType == UnmarshalString(messages.v[1])
             IN  IF msgType.err THEN NoFrame
                 ELSE IF Len(messages.v) >= 3
                 THEN LET event == UnmarshalEvent(messages.v[3])
                      IN  IF event.err THEN NoFrame
                          ELSE [ok |-> TRUE, event |-> event.v]
                 ELSE NoFrame

\* the parsing of a frame in the read loop: the event of an EVENT frame, or
\* nothing when one of the steps makes the loop continue
DecodeFrame(f) ==
    LET messages == UnmarshalMessages(f)
        NoFrame == [ok |-> FALSE, event |-> NoEvent]
    IN  IF messages.err \/ Len(messages.v) < 2 THEN NoFrame
        ELSE LET msgType == UnmarshalString(messages.v[1])
             IN  IF msgType.err THEN NoFrame
                 ELSE IF msgType.v = "EVENT" /\ Len(messages.v) >= 3
                 THEN LET event == UnmarshalEvent(messages.v[3])
                      IN  IF event.err THEN NoFrame
                          ELSE [ok |-> TRUE, event |-> event.v]
                 ELSE NoFrame

\* the Unix times at which a relay may be connected
Times == {0, 1}

(***************************************************************************)
(* The relay tasks                                                         *)
(***************************************************************************)

VARIABLES
    skipNIP5,    \* the --skip-nip5 flag
    store,       \* the rows of processed_notes
    jobs,        \* the bag of e-mail jobs handed to QueueEmailJob
    lookups,     \* the bag of directory lookups made
    skipped,     \* the event ids printed as "Skipping already processed note"
    delivered,   \* frames read so far
    faults,      \* failures of the store, the directory and the templates so far
    pc,          \* where the read loop of each relay stands
    cur,         \* the event each read loop is handling
    todo,        \* the matched users it has still to process
    usr,         \* the user it is processing
    isVerified,  \* the local isVerified of processMention / processDirectMessage
    senderNIP5,  \* the local senderNIP5
    queued,      \* whether the e-mail service returned no error
    mgr,         \* where connectToRelay stands for each relay
    conn,        \* the websocket connection of each relay
    sent,        \* the messages written to each connection
    readErr,     \* the error ReadMessage returned to each read loop
    reported,    \* the relays whose connectToRelay error was printed
    dropped,     \* the frames each read loop dropped while decoding
    origin,      \* the relay of the RelayEvent the pooled listener is handling
    stopping,    \* whether the operator has asked the process to stop
    attempts,    \* the bag of SendEmail calls made, each with its job and outcome
    call         \* a single call of a function: its name, argument and result

\* the state of the connections and of the pool, which the steps of the
\* event pipeline leave alone
connVars == <<mgr, conn, sent, readErr, reported, dropped, origin, stopping, attempts,
              call>>

vars == <<skipNIP5, store, jobs, lookups, skipped, delivered, faults, pc, cur, todo,
          usr, isVerified, senderNIP5, queued, mgr, conn, sent, readErr, reported,
          dropped, origin, stopping, attempts, call>>

\* no call of a single function is being looked at
NoCall == [fn |-> "none"]

\* the state once every relay is connected and subscribed and its read loop
\* waits for a frame
Init ==
    /\ skipNIP5 \in BOOLEAN
    /\ store = {}
    /\ jobs = EmptyBag
    /\ lookups = EmptyBag
    /\ skipped = {}
    /\ delivered = 0
    /\ faults = 0
    /\ pc = [r \in Relays |-> "read"]
    /\ cur = [r \in Relays |-> NoEvent]
    /\ todo = [r \in Relays |-> {}]
    /\ usr = [r \in Relays |-> NoUser]
    /\ isVerified = [r \in Relays |-> FALSE]
    /\ senderNIP5 = [r \in Relays |-> <<>>]
    /\ queued = [r \in Relays |-> FALSE]
    /\ mgr = [r \in Relays |-> "select"]
    /\ conn = [r \in Relays |-> "open"]
    /\ sent = [r \in Relays |-> <<subscribeMsg(0)>>]
    /\ readErr = [r \in Relays |-> "none"]
    /\ reported = {}
    /\ dropped = [r \in Relays |-> 0]
    /\ origin = "none"
    /\ stopping = FALSE
    /\ attempts = EmptyBag
    /\ call = NoCall

\* the read loop reads an EVENT frame and decodes its event object
ReadEvent(r, e) ==
    /\ pc[r] = "read"
    /\ UNCHANGED connVars
    /\ delivered < MaxDeliveries
    /\ delivered' = delivered + 1
    /\ cur' = [cur EXCEPT ![r] = e]
    /\ pc' = [pc EXCEPT ![r] = "check"]
    /\ UNCHANGED <<skipNIP5, store, jobs, lookups, skipped, faults, todo, usr,
                   isVerified, senderNIP5, queued>>

\* CheckFails that takes a failed query for "not processed" and goes on
CheckFailsOpen(r) ==
    /\ pc[r] = "check"
    /\ UNCHANGED connVars
    /\ faults < MaxFaults
    /\ faults' = faults + 1
    /\ pc' = [pc EXCEPT ![r] = "route"]
    /\ todo' = [todo EXCEPT ![r] = MatchedUsers(cur[r])]
    /\ UNCHANGED <<skipNIP5, store, jobs, lookups, skipped, delivered, cur, usr,
                   isVerified, senderNIP5, queued>>

\* the query of isNoteProcessed fails: the frame is dropped
CheckFails(r) ==
    /\ pc[r] = "check"
    /\ UNCHANGED connVars
    /\ faults < MaxFaults
    /\ faults' = faults + 1
    /\ pc' = [pc EXCEPT ![r] = "read"]
    /\ cur' = [cur EXCEPT ![r] = NoEvent]
    /\ UNCHANGED <<skipNIP5, store, jobs, lookups, skipped, delivered, todo, usr,
                   isVerified, senderNIP5, queued>>

\* CheckProcessed without the match: every user is processed
CheckProcessedUnmatched(r) ==
    /\ pc[r] = "check"
    /\ UNCHANGED connVars
    /\ IF isNoteProcessed(store, cur[r].ID)
       THEN /\ pc' = [pc EXCEPT ![r] = "read"]
            /\ cur' = [cur EXCEPT ![r] = NoEvent]
            /\ skipped' = skipped \cup {cur[r].ID}
            /\ todo' = todo
       ELSE /\ pc' = [pc EXCEPT ![r] = "route"]
            /\ cur' = cur
            /\ skipped' = skipped
            /\ todo' = [todo EXCEPT ![r] = IF cur[r].Kind \in {1, 4} THEN Users ELSE {}]
    /\ UNCHANGED <<skipNIP5, store, jobs, lookups, delivered, faults, usr, isVerified,
                   senderNIP5, queued>>

\* isNoteProcessed, then the switch on the kind: an event already recorded is
\* skipped, another one is matched against every user
CheckProcessed(r) ==
    /\ pc[r] = "check"
    /\ UNCHANGED connVars
    /\ IF isNoteProcessed(store, cur[r].ID)
       THEN /\ pc' = [pc EXCEPT ![r] = "read"]
            /\ cur' = [cur EXCEPT ![r] = NoEvent]
            /\ skipped' = skipped \cup {cur[r].ID}
            /\ todo' = todo
       ELSE /\ pc' = [pc EXCEPT ![r] = "route"]
            /\ cur' = cur
            /\ skipped' = skipped
            /\ todo' = [todo EXCEPT ![r] = MatchedUsers(cur[r])]
    /\ UNCHANGED <<skipNIP5, store, jobs, lookups, delivered, faults, usr, isVerified,
                   senderNIP5, queued>>

\* the loop over the users has ended: back to ReadMessage
FinishEvent(r) ==
    /\ pc[r] = "route"
    /\ UNCHANGED connVars
    /\ todo[r] = {}
    /\ pc' = [pc EXCEPT ![r] = "read"]
    /\ cur' = [cur EXCEPT ![r] = NoEvent]
    /\ usr' = [usr EXCEPT ![r] = NoUser]
    /\ isVerified' = [isVerified EXCEPT ![r] = FALSE]
    /\ senderNIP5' = [senderNIP5 EXCEPT ![r] = <<>>]
    /\ queued' = [queued EXCEPT ![r] = FALSE]
    /\ UNCHANGED <<skipNIP5, store, jobs, lookups, skipped, delivered, faults, todo>>

\* processDirectMessage rejects content that is not base64 before anything else
RejectDM(r, u) ==
    /\ pc[r] = "route"
    /\ UNCHANGED connVars
    /\ u \in todo[r]
    /\ cur[r].Kind = 4
    /\ ~validateNIP4Message(cur[r])
    /\ todo' = [todo EXCEPT ![r] = todo[r] \ {u}]
    /\ usr' = [usr EXCEPT ![r] = u]
    /\ isVerified' = [isVerified EXCEPT ![r] = FALSE]
    /\ senderNIP5' = [senderNIP5 EXCEPT ![r] = <<>>]
    /\ queued' = [queued EXCEPT ![r] = FALSE]
    /\ UNCHANGED <<skipNIP5, store, jobs, lookups, skipped, delivered, faults, pc, cur>>

\* processMention / processDirectMessage up to the e-mail: verifyNIP5FromDB
\* and the strict or permissive decision
Verify(r, u, reachable) ==
    LET v == verifyNIP5FromDB(cur[r].PubKey, reachable)
    IN  /\ pc[r] = "route"
        /\ UNCHANGED connVars
        /\ u \in todo[r]
        /\ cur[r].Kind = 4 => validateNIP4Message(cur[r])
        /\ reachable \/ faults < MaxFaults
        /\ faults' = IF reachable THEN faults ELSE faults + 1
        /\ lookups' = lookups (+) SetToBag({[PubKey |-> cur[r].PubKey,
                                              EventID |-> cur[r].ID, To |-> u.Email]})
        /\ todo' = [todo EXCEPT ![r] = todo[r] \ {u}]
        /\ usr' = [usr EXCEPT ![r] = u]
        /\ isVerified' = [isVerified EXCEPT ![r] = v.isVerified]
        /\ queued' = [queued EXCEPT ![r] = FALSE]
        /\ IF Proceeds(v, skipNIP5)
           THEN /\ pc' = [pc EXCEPT ![r] = "send"]
                /\ senderNIP5' = [senderNIP5 EXCEPT ![r] = SenderLabel(v)]
           ELSE /\ pc' = pc
                /\ senderNIP5' = [senderNIP5 EXCEPT ![r] = v.nip5]
        /\ UNCHANGED <<skipNIP5, store, jobs, skipped, delivered, cur>>

\* Send that returns from the process function when the e-mail service fails
SendOrReturn(r, rendered) ==
    /\ pc[r] = "send"
    /\ UNCHANGED connVars
    /\ rendered \/ faults < MaxFaults
    /\ faults' = IF rendered THEN faults ELSE faults + 1
    /\ jobs' = IF cur[r].Kind = 4
               THEN ProcessNostrDirectMessage(jobs, notificationEvent(cur[r]), usr[r],
                                              senderNIP5[r], rendered)
               ELSE ProcessNostrMention(jobs, cur[r], usr[r], senderNIP5[r], rendered)
    /\ queued' = [queued EXCEPT ![r] = rendered]
    /\ pc' = [pc EXCEPT ![r] = IF rendered THEN "mark" ELSE "route"]
    /\ UNCHANGED <<skipNIP5, store, lookups, skipped, delivered, cur, todo, usr,
                   isVerified, senderNIP5>>

\* the e-mail service is called: ProcessNostrMention for a note,
\* ProcessNostrDirectMessage with the placeholder event for a direct message
Send(r, rendered) ==
    /\ pc[r] = "send"
    /\ UNCHANGED connVars
    /\ rendered \/ faults < MaxFaults
    /\ faults' = IF rendered THEN faults ELSE faults + 1
    /\ jobs' = IF cur[r].Kind = 4
               THEN ProcessNostrDirectMessage(jobs, notificationEvent(cur[r]), usr[r],
                                              senderNIP5[r], rendered)
               ELSE ProcessNostrMention(jobs, cur[r], usr[r], senderNIP5[r], rendered)
    /\ queued' = [queued EXCEPT ![r] = rendered]
    /\ pc' = [pc EXCEPT ![r] = "mark"]
    /\ UNCHANGED <<skipNIP5, store, lookups, skipped, delivered, cur, todo, usr,
                   isVerified, senderNIP5>>

\* markNoteProcessed(sqliteDB, event.ID, relayURL, user.Email)
Mark(r) ==
    /\ pc[r] = "mark"
    /\ UNCHANGED connVars
    /\ store' = markNoteProcessed(store, cur[r].ID, r, usr[r].Email)
    /\ pc' = [pc EXCEPT ![r] = "route"]
    /\ UNCHANGED <<skipNIP5, jobs, lookups, skipped, delivered, faults, cur, todo, usr,
                   isVerified, senderNIP5, queued>>

\* MarkFails that ends the read loop of the relay
MarkFailsFatal(r) ==
    /\ pc[r] = "mark"
    /\ UNCHANGED connVars
    /\ faults < MaxFaults
    /\ faults' = faults + 1
    /\ pc' = [pc EXCEPT ![r] = "exit"]
    /\ UNCHANGED <<skipNIP5, store, jobs, lookups, skipped, delivered, cur, todo, usr,
                   isVerified, senderNIP5, queued>>

\* the INSERT fails: the error is printed, nothing is stored
MarkFails(r) ==
    /\ pc[r] = "mark"
    /\ UNCHANGED connVars
    /\ faults < MaxFaults
    /\ faults' = faults + 1
    /\ pc' = [pc EXCEPT ![r] = "route"]
    /\ UNCHANGED <<skipNIP5, store, jobs, lookups, skipped, delivered, cur, todo, usr,
                   isVerified, senderNIP5, queued>>

Next ==
    \E r \in Relays :
        \/ \E e \in Events : ReadEvent(r, e)
        \/ CheckFails(r)
        \/ CheckProcessed(r)
        \/ FinishEvent(r)
        \/ \E u \in Users : RejectDM(r, u)
        \/ \E u \in Users, reachable \in BOOLEAN : Verify(r, u, reachable)
        \/ \E rendered \in BOOLEAN : Send(r, rendered)
        \/ Mark(r)
        \/ MarkFails(r)

Spec == Init /\ [][Next]_vars

(***************************************************************************)
(* The e-mail service (src/Dockerfile): QueueEmailJob starts one goroutine *)
(* per job, which calls SendEmail once and prints the outcome              *)
(***************************************************************************)

\* the SendEmail calls made for job j so far
Attempts(j) ==
    CopiesIn([job |-> j, ok |-> TRUE], attempts)
        + CopiesIn([job |-> j, ok |-> FALSE], attempts)

\* SendEmail whose goroutine calls it again after a failure
SendEmailRetry(j, ok) ==
    /\ CopiesIn([job |-> j, ok |-> TRUE], attempts) < CopiesIn(j, jobs)
    /\ ok \/ faults < MaxFaults
    /\ faults' = IF ok THEN faults ELSE faults + 1
    /\ attempts' = attempts (+) SetToBag({[job |-> j, ok |-> ok]})
    /\ UNCHANGED <<skipNIP5, store, jobs, lookups, skipped, delivered, pc, cur, todo,
                   usr, isVerified, senderNIP5, queued, mgr, conn, sent, readErr,
                   reported, dropped, origin, stopping, call>>

\* the goroutine that QueueEmailJob started for job j runs: SendEmail dials
\* the SMTP server and sends, the outcome is printed, the goroutine ends
SendEmail(j, ok) ==
    /\ Attempts(j) < CopiesIn(j, jobs)
    /\ ok \/ faults < MaxFaults
    /\ faults' = IF ok THEN faults ELSE faults + 1
    /\ attempts' = attempts (+) SetToBag({[job |-> j, ok |-> ok]})
    /\ UNCHANGED <<skipNIP5, store, jobs, lookups, skipped, delivered, pc, cur, todo,
                   usr, isVerified, senderNIP5, queued, mgr, conn, sent, readErr,
                   reported, dropped, origin, stopping, call>>

\* a goroutine of the e-mail service takes its step
Deliver == \E j \in BagToSet(jobs), ok \in BOOLEAN : SendEmail(j, ok)

\* the connection whose read loop hands the jobs over
MailRelay == CHOOSE r \in Relays : TRUE

\* a step of the read loop of that connection
Handle(r) ==
    \/ \E e \in Events : ReadEvent(r, e)
    \/ CheckFails(r)
    \/ CheckProcessed(r)
    \/ FinishEvent(r)
    \/ \E u \in Users : RejectDM(r, u)
    \/ \E u \in Users, reachable \in BOOLEAN : Verify(r, u, reachable)
    \/ \E rendered \in BOOLEAN : Send(r, rendered)
    \/ Mark(r)
    \/ MarkFails(r)

NextMail == Handle(MailRelay) \/ Deliver

\* the read loop of one connection together with the goroutines of the
\* e-mail service; the scheduler lets every goroutine that can take a step
\* take one
SpecMail ==
    Init /\ [][NextMail]_vars /\ WF_vars(Handle(MailRelay)) /\ WF_vars(Deliver)

\* event objects of relays that report ids of their own choice; the id field
\* is decoded like any other field and never compared with the content:
\* the direct message e4 under the id the honest relay reports, the same
\* message under another id, a note of alice to bob under the id of e4, and
\* the direct message e6
ForgedEvents ==
    { EventOf("e4"),
      [EventOf("e4") EXCEPT !.ID = "e4x"],
      Ev("e4", HexA, 1, <<PTag(Bob.NostrNpub)>>, <<"h", "i">>),
      EventOf("e6") }

\* the read loops when the relays send such events
NextForge ==
    \E r \in Relays :
        \/ \E e \in ForgedEvents : ReadEvent(r, e)
        \/ CheckFails(r)
        \/ CheckProcessed(r)
        \/ FinishEvent(r)
        \/ \E u \in Users : RejectDM(r, u)
        \/ \E u \in Users, reachable \in BOOLEAN : Verify(r, u, reachable)
        \/ \E rendered \in BOOLEAN : Send(r, rendered)
        \/ Mark(r)
        \/ MarkFails(r)

SpecForge == Init /\ [][NextForge]_vars

(***************************************************************************)
(* The connections                                                         *)
(***************************************************************************)

\* the state when listenToNostrRelays starts the goroutines
InitConn ==
    /\ skipNIP5 \in BOOLEAN
    /\ store = {}
    /\ jobs = EmptyBag
    /\ lookups = EmptyBag
    /\ skipped = {}
    /\ delivered = 0
    /\ faults = 0
    /\ pc = [r \in Relays |-> "idle"]
    /\ cur = [r \in Relays |-> NoEvent]
    /\ todo = [r \in Relays |-> {}]
    /\ usr = [r \in Relays |-> NoUser]
    /\ isVerified = [r \in Relays |-> FALSE]
    /\ senderNIP5 = [r \in Relays |-> <<>>]
    /\ queued = [r \in Relays |-> FALSE]
    /\ mgr = [r \in Relays |-> "parse"]
    /\ conn = [r \in Relays |-> "none"]
    /\ sent = [r \in Relays |-> <<>>]
    /\ readErr = [r \in Relays |-> "none"]
    /\ reported = {}
    /\ dropped = [r \in Relays |-> 0]
    /\ origin = "none"
    /\ stopping = FALSE
    /\ attempts = EmptyBag
    /\ call = NoCall

\* the variables the steps of connectToRelay before the read loop leave alone
pipeVars == <<skipNIP5, store, jobs, lookups, skipped, delivered, faults, cur, todo,
              usr, isVerified, senderNIP5, queued, origin, stopping, attempts, call>>

\* url.Parse(relayURL): on an error connectToRelay returns it and the
\* goroutine of listenToNostrRelays prints it
ParseURL(r, ok) ==
    /\ mgr[r] = "parse"
    /\ mgr' = [mgr EXCEPT ![r] = IF ok THEN "dial" ELSE "returned"]
    /\ reported' = IF ok THEN reported ELSE reported \cup {r}
    /\ UNCHANGED <<pipeVars, pc, conn, sent, readErr, dropped>>

\* Dial whose failure ends every relay manager
DialFatal(r, ok) ==
    /\ mgr[r] = "dial"
    /\ mgr' = IF ok THEN [mgr EXCEPT ![r] = "subscribe"] ELSE [q \in Relays |-> "returned"]
    /\ conn' = [conn EXCEPT ![r] = IF ok THEN "open" ELSE "none"]
    /\ reported' = IF ok THEN reported ELSE reported \cup {r}
    /\ UNCHANGED <<pipeVars, pc, sent, readErr, dropped>>

\* websocket.DefaultDialer.Dial
Dial(r, ok) ==
    /\ mgr[r] = "dial"
    /\ mgr' = [mgr EXCEPT ![r] = IF ok THEN "subscribe" ELSE "returned"]
    /\ conn' = [conn EXCEPT ![r] = IF ok THEN "open" ELSE "none"]
    /\ reported' = IF ok THEN reported ELSE reported \cup {r}
    /\ UNCHANGED <<pipeVars, pc, sent, readErr, dropped>>

\* Subscribe that starts the read loop although the REQ could not be written
SubscribeThenRead(r, now, ok) ==
    /\ mgr[r] = "subscribe"
    /\ IF ok
       THEN /\ sent' = [sent EXCEPT ![r] = Append(sent[r], subscribeMsg(now))]
            /\ pc' = [pc EXCEPT ![r] = "read"]
            /\ mgr' = [mgr EXCEPT ![r] = "select"]
            /\ UNCHANGED <<conn, reported>>
       ELSE /\ pc' = [pc EXCEPT ![r] = "read"]
            /\ mgr' = [mgr EXCEPT ![r] = "select"]
            /\ UNCHANGED <<sent, conn, reported>>
    /\ UNCHANGED <<pipeVars, readErr, dropped>>

\* conn.WriteMessage of the REQ, then the start of the read loop; on an error
\* connectToRelay returns and the deferred conn.Close() runs
Subscribe(r, now, ok) ==
    /\ mgr[r] = "subscribe"
    /\ IF ok
       THEN /\ sent' = [sent EXCEPT ![r] = Append(sent[r], subscribeMsg(now))]
            /\ pc' = [pc EXCEPT ![r] = "read"]
            /\ mgr' = [mgr EXCEPT ![r] = "select"]
            /\ UNCHANGED <<conn, reported>>
       ELSE /\ conn' = [conn EXCEPT ![r] = "closed"]
            /\ mgr' = [mgr EXCEPT ![r] = "returned"]
            /\ reported' = reported \cup {r}
            /\ UNCHANGED <<sent, pc>>
    /\ UNCHANGED <<pipeVars, readErr, dropped>>

\* ReadFrame by a reader that runs beside the processing of the frame before
ReadFrameOverlapping(r, i) ==
    LET d == DecodeFrame(FrameList[i])
    IN  /\ pc[r] \in {"read", "route"}
        /\ conn[r] = "open"
        /\ delivered < MaxDeliveries
        /\ delivered' = delivered + 1
        /\ IF d.ok
           THEN /\ cur' = [cur EXCEPT ![r] = d.event]
                /\ pc' = [pc EXCEPT ![r] = "check"]
                /\ dropped' = dropped
           ELSE /\ dropped' = [dropped EXCEPT ![r] = dropped[r] + 1]
                /\ UNCHANGED <<cur, pc>>
        /\ UNCHANGED <<skipNIP5, store, jobs, lookups, skipped, faults, todo, usr,
                       isVerified, senderNIP5, queued, mgr, conn, sent, readErr,
                       reported, origin, stopping, attempts, call>>

\* conn.ReadMessage returns a frame, which the loop decodes: an event goes
\* on to the dedup check, anything else is dropped
ReadFrame(r, i) ==
    LET d == DecodeFrame(FrameList[i])
    IN  /\ pc[r] = "read"
        /\ conn[r] = "open"
        /\ delivered < MaxDeliveries
        /\ delivered' = delivered + 1
        /\ IF d.ok
           THEN /\ cur' = [cur EXCEPT ![r] = d.event]
                /\ pc' = [pc EXCEPT ![r] = "check"]
                /\ dropped' = dropped
           ELSE /\ dropped' = [dropped EXCEPT ![r] = dropped[r] + 1]
                /\ UNCHANGED <<cur, pc>>
        /\ UNCHANGED <<skipNIP5, store, jobs, lookups, skipped, faults, todo, usr,
                       isVerified, senderNIP5, queued, mgr, conn, sent, readErr,
                       reported, origin, stopping, attempts, call>>

\* conn.ReadMessage returns an error: the read deadline of five seconds
\* passed ("timeout"), the peer closed the connection ("close"), or another
\* failure ("other"); in each case the read loop returns, while
\* connectToRelay stays in its select and never closes the connection
ReadFails(r, err) ==
    /\ pc[r] = "read"
    /\ conn[r] = "open"
    /\ readErr' = [readErr EXCEPT ![r] = err]
    /\ pc' = [pc EXCEPT ![r] = "exit"]
    /\ UNCHANGED <<pipeVars, mgr, conn, sent, reported, dropped>>

NextConn ==
    \E r \in Relays :
        \/ \E ok \in BOOLEAN : ParseURL(r, ok)
        \/ \E ok \in BOOLEAN : Dial(r, ok)
        \/ \E now \in Times, ok \in BOOLEAN : Subscribe(r, now, ok)
        \/ \E i \in DOMAIN FrameList : ReadFrame(r, i)
        \/ \E err \in {"timeout", "close", "other"} : ReadFails(r, err)
        \/ CheckFails(r)
        \/ CheckProcessed(r)
        \/ FinishEvent(r)
        \/ \E u \in Users : RejectDM(r, u)
        \/ \E u \in Users, reachable \in BOOLEAN : Verify(r, u, reachable)
        \/ \E rendered \in BOOLEAN : Send(r, rendered)
        \/ Mark(r)
        \/ MarkFails(r)

SpecConn == InitConn /\ [][NextConn]_vars

\* the scheduler lets every goroutine that can take a step take one
SpecConnFair == SpecConn /\ WF_vars(NextConn)

\* the operator asks the process to stop, as the start-up message suggests
\* ("Press Ctrl+C to stop listening"): the program installs no signal
\* handler, passes no cancellation to its goroutines and waits in select {},
\* so no goroutine observes the request and no state of the program changes
Interrupt ==
    /\ ~stopping
    /\ stopping' = TRUE
    /\ UNCHANGED <<skipNIP5, store, jobs, lookups, skipped, delivered, faults, pc, cur,
                   todo, usr, isVerified, senderNIP5, queued, mgr, conn, sent, readErr,
                   reported, dropped, origin, attempts, call>>

NextSignal == NextConn \/ Interrupt

\* the relay tasks together with the request to stop, under a fair scheduler
SpecSignal == InitConn /\ [][NextSignal]_vars /\ WF_vars(NextConn) /\ WF_vars(Interrupt)

(***************************************************************************)
(* The pooled listener (src/unnamed/part_000): one loop over the events of *)
(* a relay pool, direct messages only                                      *)
(***************************************************************************)

\* the one task of the pooled listener
Pool == "pool"

\* the state when the loop over the subscription starts
InitPool ==
    /\ skipNIP5 \in BOOLEAN
    /\ store = {}
    /\ jobs = EmptyBag
    /\ lookups = EmptyBag
    /\ skipped = {}
    /\ delivered = 0
    /\ faults = 0
    /\ pc = [t \in {Pool} |-> "read"]
    /\ cur = [t \in {Pool} |-> NoEvent]
    /\ todo = [t \in {Pool} |-> {}]
    /\ usr = [t \in {Pool} |-> NoUser]
    /\ isVerified = [t \in {Pool} |-> FALSE]
    /\ senderNIP5 = [t \in {Pool} |-> <<>>]
    /\ queued = [t \in {Pool} |-> FALSE]
    /\ mgr = [r \in Relays |-> "pool"]
    /\ conn = [r \in Relays |-> "open"]
    /\ \E now \in Times :
          sent = [r \in Relays |-> <<[type |-> "REQ", filter |-> poolFilter(now)]>>]
    /\ readErr = [r \in Relays |-> "none"]
    /\ reported = {}
    /\ dropped = [r \in Relays |-> 0]
    /\ origin = "none"
    /\ stopping = FALSE
    /\ attempts = EmptyBag
    /\ call = NoCall

\* the subscription channel yields the event that a relay of the pool sent
PoolRead(relay, e) ==
    /\ pc[Pool] = "read"
    /\ delivered < MaxDeliveries
    /\ delivered' = delivered + 1
    /\ cur' = [cur EXCEPT ![Pool] = e]
    /\ origin' = relay
    /\ pc' = [pc EXCEPT ![Pool] = "check"]
    /\ UNCHANGED <<skipNIP5, store, jobs, lookups, skipped, faults, todo, usr,
                   isVerified, senderNIP5, queued, mgr, conn, sent, readErr, reported,
                   dropped, stopping, attempts, call>>

\* PoolRoute without the dedup check
PoolRouteUnchecked ==
    /\ pc[Pool] = "check"
    /\ UNCHANGED connVars
    /\ pc' = [pc EXCEPT ![Pool] = "route"]
    /\ todo' = [todo EXCEPT ![Pool] = MatchedUsersPool(cur[Pool])]
    /\ UNCHANGED <<skipNIP5, store, jobs, lookups, skipped, delivered, faults, cur, usr,
                   isVerified, senderNIP5, queued>>

\* processEvent: isNoteProcessed, then the match of a kind-4 event against
\* every user
PoolRoute ==
    /\ pc[Pool] = "check"
    /\ UNCHANGED connVars
    /\ IF isNoteProcessed(store, cur[Pool].ID)
       THEN /\ pc' = [pc EXCEPT ![Pool] = "read"]
            /\ cur' = [cur EXCEPT ![Pool] = NoEvent]
            /\ skipped' = skipped \cup {cur[Pool].ID}
            /\ todo' = todo
       ELSE /\ pc' = [pc EXCEPT ![Pool] = "route"]
            /\ cur' = cur
            /\ skipped' = skipped
            /\ todo' = [todo EXCEPT ![Pool] = MatchedUsersPool(cur[Pool])]
    /\ UNCHANGED <<skipNIP5, store, jobs, lookups, delivered, faults, usr, isVerified,
                   senderNIP5, queued>>

\* processDirectMessage of the pooled listener up to the e-mail: the content
\* is not validated
PoolVerify(u, reachable) ==
    LET v == verifyNIP5FromDBPool(cur[Pool].PubKey, reachable)
    IN  /\ pc[Pool] = "route"
        /\ UNCHANGED connVars
        /\ u \in todo[Pool]
        /\ reachable \/ faults < MaxFaults
        /\ faults' = IF reachable THEN faults ELSE faults + 1
        /\ lookups' = lookups (+) SetToBag({[PubKey |-> cur[Pool].PubKey,
                                              EventID |-> cur[Pool].ID, To |-> u.Email]})
        /\ todo' = [todo EXCEPT ![Pool] = todo[Pool] \ {u}]
        /\ usr' = [usr EXCEPT ![Pool] = u]
        /\ isVerified' = [isVerified EXCEPT ![Pool] = v.isVerified]
        /\ queued' = [queued EXCEPT ![Pool] = FALSE]
        /\ IF Proceeds(v, skipNIP5)
           THEN /\ pc' = [pc EXCEPT ![Pool] = "send"]
                /\ senderNIP5' = [senderNIP5 EXCEPT ![Pool] = SenderLabel(v)]
           ELSE /\ pc' = pc
                /\ senderNIP5' = [senderNIP5 EXCEPT ![Pool] = v.nip5]
        /\ UNCHANGED <<skipNIP5, store, jobs, skipped, delivered, cur>>

\* markNoteProcessed(sqliteDB, event.ID, "relay", user.Email)
PoolMark ==
    /\ pc[Pool] = "mark"
    /\ UNCHANGED connVars
    /\ store' = markNoteProcessed(store, cur[Pool].ID, "relay", usr[Pool].Email)
    /\ pc' = [pc EXCEPT ![Pool] = "route"]
    /\ UNCHANGED <<skipNIP5, jobs, lookups, skipped, delivered, faults, cur, todo, usr,
                   isVerified, senderNIP5, queued>>

NextPool ==
    \/ \E relay \in Relays, e \in Events : PoolRead(relay, e)
    \/ CheckFails(Pool)
    \/ PoolRoute
    \/ FinishEvent(Pool)
    \/ \E u \in Users, reachable \in BOOLEAN : PoolVerify(u, reachable)
    \/ \E rendered \in BOOLEAN : Send(Pool, rendered)
    \/ PoolMark
    \/ MarkFails(Pool)

SpecPool == InitPool /\ [][NextPool]_vars

\* the steps of the pooled listener while every INSERT of markNoteProcessed
\* succeeds
NextPoolMarked ==
    \/ \E relay \in Relays, e \in Events : PoolRead(relay, e)
    \/ CheckFails(Pool)
    \/ PoolRoute
    \/ FinishEvent(Pool)
    \/ \E u \in Users, reachable \in BOOLEAN : PoolVerify(u, reachable)
    \/ \E rendered \in BOOLEAN : Send(Pool, rendered)
    \/ PoolMark

SpecPoolMarked == InitPool /\ [][NextPoolMarked]_vars

(***************************************************************************)
(* Single calls of verifyNIP5FromDB, of mentionsUser and of the identity   *)
(* codec on arguments drawn from small sets                                *)
(***************************************************************************)

\* a fourth identity
HexD == <<"d", "4">>

\* a watched user whose document has no username
Anon == [Username |-> <<>>, Email |-> "anon@example", NostrNpub |-> Npub(HexC)]

\* a watched user whose username has an entry in the abbreviations map
Host == [Username |-> <<"n", "o", "s", "t", "r", "o", "o", "t", "s">>,
         Email |-> "host@example", NostrNpub |-> hexToNpub(HexD)]

\* sender keys as an event may carry them: the known keys, the key of alice
\* in upper case, and strings that are not hex
VerifyKeys == KnownKeys \cup {<<"A", "1">>, <<"z", "z">>, <<"a">>, <<>>}

\* notes: those of Events and some that name users by text, by alias, by a
\* p tag with a hex key, or not at all
MentionEvents ==
    {e \in Events : e.Kind = 1} \cup
    { Ev("m1", HexB, 1, <<>>, <<"t", "r", "y", " ", "N", "o", "s", "t", "r">>),
      Ev("m2", HexB, 1, <<>>, <<"@", "B", "O", "!">>),
      Ev("m3", HexB, 1, <<PTag(HexC)>>, <<>>),
      Ev("m4", HexB, 1, <<<<"p">>, <<"e", HexB>>>>, <<"x">>),
      Ev("m5", HexA, 1, <<>>, Bob.NostrNpub) }

\* watched users with their binary identities
MentionUsers == {<<Alice, HexA>>, <<Bob, HexB>>, <<Anon, HexC>>, <<Host, HexD>>}

\* the hex form of the 32-byte identity whose bytes all are the byte d1 d2
Hex32(d1, d2) == [i \in 1..64 |-> IF i % 2 = 1 THEN d1 ELSE d2]

\* 32-byte identities in lower-case hex, and some in upper case
CodecKeys ==
    {Hex32(HexDigits[i], HexDigits[j]) : i, j \in 1..16}
        \cup {Hex32(d, "F") : d \in {"A", "0", "9"}}
        \cup {[i \in 1..64 |-> HexDigits[((i * 7) % 16) + 1]]}

\* the 32-byte identity 01 01 ... 01 and its five-bit groups
Key32 == Hex32("0", "1")

Key32Groups == ConvertBitsPad(HexDecode(Key32), 8, 5)

\* strings handed to npubToHex: the npub of a 32-byte identity, in lower and
\* in upper case; well-formed npub strings whose payload has 0, 1, 31 and 33
\* bytes; strings with another prefix, with a wrong last checksum character,
\* with mixed case, without separator, with a character outside the charset;
\* strings with a valid checksum whose groups leave a non-zero bit or more
\* than four bits over
DecodeInputs ==
    LET good == Bech32Encode(Key32Groups)
        up   == [i \in 1..Len(good) |->
                    IF \E k \in 1..26 : LowerChars[k] = good[i]
                    THEN UpperChars[CHOOSE k \in 1..26 : LowerChars[k] = good[i]]
                    ELSE good[i]]
    IN  { good, up,
          Bech32Encode(<<>>),
          hexToNpub(HexA),
          hexToNpub(SubSeq(Key32, 1, 62)),
          hexToNpub(Key32 \o <<"0", "1">>),
          <<"n", "s", "e", "c">> \o SubSeq(good, 5, Len(good)),
          SubSeq(good, 1, Len(good) - 1)
              \o <<IF good[Len(good)] = "q" THEN "p" ELSE "q">>,
          <<"N">> \o SubSeq(good, 2, Len(good)),
          <<"n", "p", "u", "b">> \o SubSeq(good, 6, Len(good)),
          SubSeq(good, 1, 10) \o <<"b">> \o SubSeq(good, 12, Len(good)),
          Bech32Encode([Key32Groups EXCEPT ![Len(Key32Groups)] = @ + 1]),
          Bech32Encode(<<0, 0, 0>>),
          <<"n", "p", "u", "b", "1">>,
          <<>> }

\* the calls looked at
Calls ==
    {[fn |-> f, arg |-> [pubkey |-> k, reachable |-> b], done |-> FALSE, res |-> <<>>] :
        f \in {"verifyNIP5FromDB", "verifyNIP5FromDBPool"}, k \in VerifyKeys,
        b \in BOOLEAN}
    \cup {[fn |-> "mentionsUser", arg |-> [event |-> e, user |-> u[1], hex |-> u[2]],
           done |-> FALSE, res |-> <<>>] : e \in MentionEvents, u \in MentionUsers}
    \cup {[fn |-> "npubToHex(hexToNpub)", arg |-> k, done |-> FALSE, res |-> <<>>] :
           k \in CodecKeys}
    \cup {[fn |-> "npubToHex", arg |-> n, done |-> FALSE, res |-> <<>>] :
           n \in DecodeInputs}
    \cup {[fn |-> "hexToNpub", arg |-> k, done |-> FALSE, res |-> <<>>] :
           k \in VerifyKeys}

InitFn ==
    /\ skipNIP5 = FALSE
    /\ store = {}
    /\ jobs = EmptyBag
    /\ lookups = EmptyBag
    /\ skipped = {}
    /\ delivered = 0
    /\ faults = 0
    /\ pc = [r \in Relays |-> "idle"]
    /\ cur = [r \in Relays |-> NoEvent]
    /\ todo = [r \in Relays |-> {}]
    /\ usr = [r \in Relays |-> NoUser]
    /\ isVerified = [r \in Relays |-> FALSE]
    /\ senderNIP5 = [r \in Relays |-> <<>>]
    /\ queued = [r \in Relays |-> FALSE]
    /\ mgr = [r \in Relays |-> "parse"]
    /\ conn = [r \in Relays |-> "none"]
    /\ sent = [r \in Relays |-> <<>>]
    /\ readErr = [r \in Relays |-> "none"]
    /\ reported = {}
    /\ dropped = [r \in Relays |-> 0]
    /\ origin = "none"
    /\ stopping = FALSE
    /\ attempts = EmptyBag
    /\ call \in Calls

\* everything but the call
taskVars == <<skipNIP5, store, jobs, lookups, skipped, delivered, faults, pc, cur, todo,
              usr, isVerified, senderNIP5, queued, mgr, conn, sent, readErr, reported,
              dropped, origin, stopping, attempts>>

\* verifyNIP5FromDB(pubkey, client) of main.go returns
CallVerify ==
    /\ call.fn = "verifyNIP5FromDB"
    /\ ~call.done
    /\ call' = [call EXCEPT !.done = TRUE,
                            !.res = verifyNIP5FromDB(call.arg.pubkey, call.arg.reachable)]
    /\ UNCHANGED taskVars

\* verifyNIP5FromDB(hexPubkey, client) of the pooled listener returns
CallVerifyPool ==
    /\ call.fn = "verifyNIP5FromDBPool"
    /\ ~call.done
    /\ call' = [call EXCEPT !.done = TRUE,
                            !.res = verifyNIP5FromDBPool(call.arg.pubkey, call.arg.reachable)]
    /\ UNCHANGED taskVars

\* mentionsUser(event, user) returns
CallMentionsUser ==
    /\ call.fn = "mentionsUser"
    /\ ~call.done
    /\ call' = [call EXCEPT !.done = TRUE,
                            !.res = mentionsUser(call.arg.event, call.arg.user)]
    /\ UNCHANGED taskVars

\* hexToNpub(x) of the pooled listener returns and npubToHex of its result
\* returns
CallRoundTrip ==
    /\ call.fn = "npubToHex(hexToNpub)"
    /\ ~call.done
    /\ LET enc == hexToNpubPool(call.arg)
           dec == IF enc.err THEN [err |-> TRUE, hex |-> <<>>] ELSE npubToHex(enc.npub)
       IN  call' = [call EXCEPT !.done = TRUE, !.res = [enc |-> enc, dec |-> dec]]
    /\ UNCHANGED taskVars

\* npubToHex(npub) of the pooled listener returns
CallNpubToHex ==
    /\ call.fn = "npubToHex"
    /\ ~call.done
    /\ call' = [call EXCEPT !.done = TRUE, !.res = npubToHex(call.arg)]
    /\ UNCHANGED taskVars

\* the filter of the directory query of verifyNIP5FromDB in main.go
nip5Filter(pubkey) == [nostrNpub |-> hexToNpub(pubkey)]

\* hexToNpub(pubkey) returns in main.go and in the pooled listener, and
\* verifyNIP5FromDB of main.go builds its query from it
CallHexToNpub ==
    /\ call.fn = "hexToNpub"
    /\ ~call.done
    /\ call' = [call EXCEPT !.done = TRUE,
                            !.res = [npub |-> hexToNpub(call.arg),
                                     filter |-> nip5Filter(call.arg),
                                     pool |-> hexToNpubPool(call.arg)]]
    /\ UNCHANGED taskVars

NextFn ==
    \/ CallVerify
    \/ CallVerifyPool
    \/ CallMentionsUser
    \/ CallRoundTrip
    \/ CallNpubToHex
    \/ CallHexToNpub

SpecFn == InitFn /\ [][NextFn]_vars

(***************************************************************************)
(* Properties                                                              *)
(***************************************************************************)

\* the rows of processed_notes for an event id
Rows(id) == {row \in store : row.event_id = id}

\* the number of e-mail jobs queued for an event id and a recipient
JobCount(id, to) ==
    LET sel == {j \in BagToSet(jobs) : j.EventID = id /\ j.To = to}
    IN  BagCardinality([j \in sel |-> jobs[j]])

\* the number of directory lookups made for an event and a recipient
LookupCount(e, to) ==
    CopiesIn([PubKey |-> e.PubKey, EventID |-> e.ID, To |-> to], lookups)

\* a p tag of the event carries the value v
HasPTag(e, v) ==
    \E i \in 1..Len(e.Tags) :
        Len(e.Tags[i]) >= 2 /\ e.Tags[i][1] = "p" /\ e.Tags[i][2] = v

\* the binary identity (hex) of a watched user
HexOfUser(u) == CHOOSE h \in KnownKeys : NpubOf[h] = u.NostrNpub

\* the sender has a document in the directory
Verifiable(pubkey) == \E d \in Directory : d.NostrNpub = Npub(pubkey)

\* relay r has just matched its event and called no process function yet
JustRouted(r) == pc[r] = "route" /\ usr[r] = NoUser

\* relay r has returned from processMention / processDirectMessage for usr[r]
Returned(r) == pc[r] = "route" /\ usr[r] # NoUser

\* C1 (as claimed): an event id delivered twice, by the same relay or by two
\* relays in any order, is dispatched once and recorded once: when no store,
\* directory or template failure occurred, no recipient has two e-mail jobs
\* for one event id and no event id has two rows.
C1_Idempotence ==
    faults = 0 =>
        \A id \in EventIDs :
            /\ Cardinality(Rows(id)) <= 1
            /\ \A u \in Users : JobCount(id, u.Email) <= 1

\* C2 (as claimed): two relay tasks that hold the same event id never both
\* pass the dedup check and go on to dispatch for the same recipient.
C2_OneWinner ==
    \A r1, r2 \in Relays :
        (/\ r1 # r2
         /\ pc[r1] \in {"send", "mark"}
         /\ pc[r2] \in {"send", "mark"}
         /\ cur[r1].ID = cur[r2].ID)
        => usr[r1] # usr[r2]

\* C3: the dedup check comes first: a task that holds an event whose id has
\* a row leaves the check straight for the next frame, and that step makes no
\* match, no directory lookup, no e-mail job and no store write, whoever the
\* event would match.
C3_DedupFirst ==
    [][\A r \in Relays :
          (pc[r] = "check" /\ Rows(cur[r].ID) # {} /\ pc'[r] # "check")
          => /\ pc'[r] = "read"
             /\ todo'[r] = {}
             /\ store' = store
             /\ jobs' = jobs
             /\ lookups' = lookups]_vars

\* an event was skipped as processed although it matches a user other than
\* the one its row names
C3_Witness ==
    \E id \in skipped : \E row \in Rows(id) : \E e \in Events : \E u \in Users :
        e.ID = id /\ u \in MatchedUsers(e) /\ u.Email # row.user_email

\* C4: without --skip-nip5 no task goes on to the e-mail or the store with an
\* unverified sender, and an event whose sender has no directory document
\* has no e-mail job and no row, however often it is delivered.
C4_StrictSkips ==
    ~skipNIP5 =>
        /\ \A r \in Relays : pc[r] \in {"send", "mark"} => isVerified[r]
        /\ \A j \in BagToSet(jobs) : Verifiable(j.SenderNpub) /\ j.SenderNIP5 # Fallback
        /\ \A id \in EventIDs :
              (\A e \in Events : e.ID = id => ~Verifiable(e.PubKey))
              => /\ Rows(id) = {}
                 /\ \A u \in Users : JobCount(id, u.Email) = 0

\* in strict mode a task has looked up an unknown sender for a matched event
\* and has returned from the process function
C4_Witness ==
    /\ ~skipNIP5
    /\ \E r \in Relays :
          /\ Returned(r)
          /\ ~Verifiable(cur[r].PubKey)
          /\ LookupCount(cur[r], usr[r].Email) > 0

\* the job of a direct message for a recipient under the fallback label
FallbackJob(e, u) ==
    EmailJob("nostr_direct_message", [e EXCEPT !.Content = Placeholder], u, Fallback)

C6_FanOutRecords ==
    \A id \in EventIDs :
        (/\ faults = 0
         /\ \A r \in Relays : pc[r] = "read"
         /\ \A u \in Users : JobCount(id, u.Email) > 0)
        => /\ Cardinality(Rows(id)) = Cardinality(Users)
           /\ \A u \in Users : \E row \in Rows(id) : row.user_email = u.Email

\* C7 (as claimed): a kind-1 event with the tag ["p", hex of a watched
\* identity] is handed to processMention for that user; a kind-4 event with
\* that tag is handed to processDirectMessage for that user, and no kind-4
\* event is handled as a mention.
C7_KindRouting ==
    /\ \A r \in Relays : \A u \in Users :
          (JustRouted(r) /\ cur[r].Kind \in {1, 4} /\ HasPTag(cur[r], HexOfUser(u)))
          => u \in todo[r]
    /\ \A j \in BagToSet(jobs) :
          j.Template = "nostr_mention" => \A e \in Events : e.ID = j.EventID => e.Kind = 1

\* the lookup of an event was made for every user in us
LookedUp(e, us) == \A u \in us : LookupCount(e, u.Email) >= 1

MatchedPairs ==
    UNION {{<<e.ID, u.Email>> : u \in MatchedUsers(e)} : e \in Events}

MatchedPair(id, to) == <<id, to>> \in MatchedPairs

C9_DMMatching ==
    \A r \in Relays :
        (JustRouted(r) /\ cur[r].Kind = 4)
        => todo[r] = {u \in Users : HasPTag(cur[r], HexOfUser(u))}

\* C10: every direct-message job carries the placeholder as content, so two
\* direct messages that differ in content yield jobs with the same content,
\* and the event a task holds stays the event it received.
C10_Placeholder ==
    /\ \A j \in BagToSet(jobs) :
          j.Template = "nostr_direct_message" => j.EventContent = Placeholder
    /\ \A r \in Relays : cur[r] \in Events \cup {NoEvent}

\* two direct messages that differ only in content and id have both been
\* dispatched to the same recipient
C10_Witness ==
    \E e1 \in Events, e2 \in Events, u \in Users :
        /\ e1.Kind = 4 /\ e2.Kind = 4
        /\ e1.Content # e2.Content
        /\ e1.PubKey = e2.PubKey /\ e1.Tags = e2.Tags
        /\ JobCount(e1.ID, u.Email) > 0 /\ JobCount(e2.ID, u.Email) > 0
        /\ \A r \in Relays : pc[r] = "read"

\* C11: an event of kind 14 or 15 or of a kind without a case, whatever it
\* tags or says, is handed to no process function: the task that holds it
\* after the switch has no user to process and goes back to reading, and no
\* lookup, job or row names such an event.
C11_OtherKindsSkipped ==
    /\ \A r \in Relays :
          (pc[r] \in {"route", "send", "mark"} /\ cur[r].Kind \notin {1, 4})
          => /\ pc[r] = "route"
             /\ todo[r] = {}
             /\ usr[r] = NoUser
             /\ ENABLED FinishEvent(r)
    /\ \A e \in Events :
          e.Kind \notin {1, 4}
          => /\ \A l \in BagToSet(lookups) : l.EventID # e.ID
             /\ \A j \in BagToSet(jobs) : j.EventID # e.ID
             /\ Rows(e.ID) = {}

\* one task holds a NIP-17 event and the other an event of an unclassified
\* kind, both after the switch and both with a p tag naming a watched user
C11_Witness ==
    \E r1, r2 \in Relays :
        /\ pc[r1] = "route" /\ pc[r2] = "route"
        /\ cur[r1].Kind \in {14, 15}
        /\ cur[r2].Kind \notin {1, 4, 14, 15}
        /\ \E u \in Users : HasPTag(cur[r1], u.NostrNpub)
        /\ \E u \in Users : HasPTag(cur[r2], u.NostrNpub)

\* the row a task writes for the event and the user it is processing
RowOf(r) == [event_id |-> cur[r].ID, relay_url |-> r, user_email |-> usr[r].Email]

C13_MarkFailureNotFatal ==
    [][/\ \A r \in Relays :
             (pc[r] = "mark" /\ pc'[r] # "mark" /\ faults' # faults)
             => /\ jobs' = jobs
                /\ store' = store
                /\ pc'[r] = "route"
                /\ cur'[r] = cur[r]
       /\ \A id \in skipped' : Rows(id)' # {}]_vars

\* the one failure was a failed write; the event has been delivered again,
\* has no row, and its recipient has a second job
C13_Witness ==
    /\ faults = 1
    /\ delivered = 2
    /\ \E r \in Relays :
          /\ pc[r] = "mark" /\ queued[r]
          /\ Rows(cur[r].ID) = {}
          /\ JobCount(cur[r].ID, usr[r].Email) = 2
          /\ \A r2 \in Relays \ {r} : pc[r2] = "read"

\* C14: markNoteProcessed on an id that already has a row succeeds and
\* leaves the store exactly as it was, whatever relay and recipient it is
\* called with; a task at the mark step for such an id can take the step
\* without a failure.
C14_MarkIdempotent ==
    /\ \A row \in store : \A r \in Relays : \A u \in Users :
          markNoteProcessed(store, row.event_id, r, u.Email) = store
    /\ \A r \in Relays :
          (pc[r] = "mark" /\ Rows(cur[r].ID) # {}) => ENABLED Mark(r)

\* without any failure a task has marked an event whose id already had a
\* row of another relay or another recipient
C14_Witness ==
    /\ faults = 0
    /\ \E r \in Relays :
          /\ Returned(r) /\ queued[r]
          /\ Rows(cur[r].ID) # {}
          /\ RowOf(r) \notin store

\* the relay a task received its event from: its own relay for a relay
\* task, the relay of the RelayEvent for the pooled listener
ReceivedFrom(t) == IF t \in Relays THEN t ELSE origin

\* C15 (as claimed): there is at most one row per event id, no step removes
\* or changes a row, and a step that changes the store adds one row for an
\* id that had none, with the relay the event was received from and the
\* address of the user being processed.
C15_StoreAppendOnly ==
    [][/\ \A id \in EventIDs : Cardinality(Rows(id)') <= 1
       /\ store \subseteq store'
       /\ store' # store
          => \E t \in DOMAIN pc :
                /\ pc[t] = "mark"
                /\ Rows(cur[t].ID) = {}
                /\ store' = store \cup {[event_id |-> cur[t].ID,
                                         relay_url |-> ReceivedFrom(t),
                                         user_email |-> usr[t].Email]}]_vars

\* C16 (as claimed): a read that times out does not end the read loop.
C16_TimeoutContinues ==
    \A r \in Relays : readErr[r] = "timeout" => pc[r] # "exit"

\* the state of relay q that belongs to its manager and its read loop
TaskState(q) == <<mgr[q], pc[q], conn[q], sent[q], readErr[q], cur[q], dropped[q]>>

\* C17: a step in which connectToRelay returns for a relay puts that relay
\* among the reported ones and changes nothing of any other relay: not its
\* manager, its connection, its subscription or its read loop, and not the
\* store or the jobs.
C17_ConnectFailureIsolated ==
    [][\A r \in Relays :
          (mgr'[r] = "returned" /\ mgr[r] # "returned")
          => /\ r \in reported'
             /\ \A q \in Relays \ {r} : TaskState(q)' = TaskState(q)
             /\ store' = store
             /\ jobs' = jobs]_vars

\* one relay failed to connect and was reported, while another relay has
\* connected, subscribed, read an event and recorded it
C17_Witness ==
    \E r, q \in Relays :
        /\ mgr[r] = "returned" /\ r \in reported /\ conn[r] = "none"
        /\ mgr[q] = "select" /\ Len(sent[q]) = 1
        /\ \E row \in store : row.relay_url = q

\* C18 (as claimed): after a read error other than a timeout the connection
\* of the relay is eventually closed and its manager has terminated.
C18_ClosedAfterReadError ==
    \A r \in Relays :
        (readErr[r] \in {"close", "other"}) ~> (conn[r] = "closed" /\ mgr[r] = "returned")

\* the frames that are an array of at least three elements with the string
\* EVENT first and an event object third
EventFrames ==
    {i \in DOMAIN FrameList :
        /\ FrameList[i].t = "array"
        /\ Len(FrameList[i].v) >= 3
        /\ FrameList[i].v[1].t = "string"
        /\ FrameList[i].v[1].v = "EVENT"
        /\ FrameList[i].v[3].t = "event"}

\* C19: a frame that does not decode is dropped: the step changes neither
\* the store nor the jobs nor the lookups, the connection stays as it is and
\* the loop waits for the next frame; a task only ever handles the event of
\* a well-formed EVENT frame, or the empty event of a null payload, which
\* no lookup, job or row names; and the read loop ends on a read error only.
C19_MalformedFrameDropped ==
    /\ [][\A r \in Relays :
             dropped'[r] # dropped[r]
             => /\ pc[r] = "read" /\ pc'[r] = "read"
                /\ store' = store /\ jobs' = jobs /\ lookups' = lookups
                /\ conn' = conn /\ readErr' = readErr /\ mgr' = mgr]_vars
    /\ [](\A r \in Relays :
             /\ pc[r] \notin {"idle", "read", "exit"}
                => \/ cur[r] = ZeroEvent
                   \/ \E i \in EventFrames : cur[r] = FrameList[i].v[3].v
             /\ pc[r] = "exit" => readErr[r] # "none")
    /\ [](/\ \A l \in BagToSet(lookups) : l.EventID # ZeroEvent.ID
          /\ \A j \in BagToSet(jobs) : j.EventID # ZeroEvent.ID
          /\ Rows(ZeroEvent.ID) = {})

\* a read loop dropped the first frame and then read an event, which it
\* has recorded
C19_Witness ==
    /\ delivered = 2
    /\ \E r \in Relays :
          /\ dropped[r] = 1
          /\ Returned(r)
          /\ RowOf(r) \in store

\* C20: on each connection at most one message is written, the REQ, and only
\* on an open connection; the read loop runs only after that write succeeded,
\* and a relay whose connectToRelay returned has no read loop and has read
\* nothing.
C20_OneSubscription ==
    \A r \in Relays :
        /\ Len(sent[r]) <= 1
        /\ sent[r] # <<>> => (sent[r][1].type = "REQ" /\ conn[r] = "open")
        /\ pc[r] # "idle" => (Len(sent[r]) = 1 /\ mgr[r] = "select")
        /\ mgr[r] = "returned"
           => (pc[r] = "idle" /\ sent[r] = <<>> /\ conn[r] # "open")
        /\ (dropped[r] > 0 \/ cur[r] # NoEvent) => Len(sent[r]) = 1

\* the REQ of one relay could not be written: its connection is closed and
\* it never read; another relay subscribed once and has read an event
C20_Witness ==
    \E r, q \in Relays :
        /\ mgr[r] = "returned" /\ conn[r] = "closed" /\ pc[r] = "idle"
        /\ Len(sent[q]) = 1 /\ cur[q] # NoEvent
\* C21 (as claimed): no two relay connections send a REQ with the same
\* subscription id.
C21_UniqueSubscriptionID ==
    \A r, q \in Relays :
        (r # q /\ sent[r] # <<>> /\ sent[q] # <<>>)
            => sent[r][1].subID # sent[q][1].subID

\* C22 (as claimed): every relay that was sent a REQ was sent the same
\* filter: the same kinds, the same identities, the same since.
C22_IdenticalFilter ==
    \A r, q \in Relays :
        (sent[r] # <<>> /\ sent[q] # <<>>) => sent[r][1].filter = sent[q][1].filter

\* C23 (as claimed): the values under #p of a REQ that was sent are exactly
\* the hex identities of the watch entries.
C23_HexFilter ==
    \A r \in Relays :
        sent[r] # <<>> => sent[r][1].filter.p = {HexOfUser(u) : u \in Users}

\* the read loop of relay r is inside processMention or processDirectMessage
\* for its event: the lookup of a matched user or the call of the e-mail
\* service or the mark is still to come
Downstream(r) ==
    \/ pc[r] = "route" /\ todo[r] # {}
    \/ pc[r] \in {"send", "mark"}

\* C24 (as claimed): while the downstream work for an event is pending, the
\* read loop of the same relay is able to read the next frame.
C24_ReadNotBlocked ==
    \A r \in Relays :
        (Downstream(r) /\ conn[r] = "open" /\ delivered < MaxDeliveries)
            => ENABLED (\E i \in DOMAIN FrameList : ReadFrame(r, i))

\* C25 (as claimed): once the process was asked to stop, eventually every
\* relay connection is closed and every relay task has terminated.
C25_CleanShutdown ==
    stopping ~> (\A r \in Relays :
                     /\ conn[r] # "open"
                     /\ mgr[r] = "returned"
                     /\ pc[r] \in {"idle", "exit"})

\* two event objects with the same sender, kind, tags and content
SameContent(e, f) ==
    /\ e.PubKey = f.PubKey
    /\ e.Kind = f.Kind
    /\ e.Tags = f.Tags
    /\ e.Content = f.Content

\* C26 (as claimed): no recipient is notified under two ids for event objects
\* with the same sender, kind, tags and content; and an event that the dedup
\* check finds recorded has the sender of the event that was processed under
\* that id.
C26_IdNotTrusted ==
    /\ \A e, f \in ForgedEvents :
          (SameContent(e, f) /\ e.ID # f.ID)
              => \A u \in Users :
                    ~(JobCount(e.ID, u.Email) > 0 /\ JobCount(f.ID, u.Email) > 0)
    /\ \A r \in Relays :
          (pc[r] = "check" /\ isNoteProcessed(store, cur[r].ID))
              => \E l \in BagToSet(lookups) :
                    l.EventID = cur[r].ID /\ l.PubKey = cur[r].PubKey

\* the documents of the directory under the encoded form of a sender key
DocumentsOf(pubkey) == {d \in Directory : d.NostrNpub = hexToNpub(pubkey)}

\* C27: verifyNIP5FromDB returns (false, "", error) when the lookup failed,
\* (false, "", nil) when the directory has no document for the sender, and
\* (true, username@trustroots.org, nil) when it has one; true is returned
\* only without an error and with a document.
C27_VerifyOutcomes ==
    (call.fn \in {"verifyNIP5FromDB", "verifyNIP5FromDBPool"} /\ call.done) =>
        LET failed == \/ ~call.arg.reachable
                      \/ call.fn = "verifyNIP5FromDBPool" /\ ~HexOk(call.arg.pubkey)
            found  == DocumentsOf(call.arg.pubkey)
        IN  /\ failed => call.res = [isVerified |-> FALSE, nip5 |-> <<>>, err |-> TRUE]
            /\ (~failed /\ found = {})
                  => call.res = [isVerified |-> FALSE, nip5 |-> <<>>, err |-> FALSE]
            /\ (~failed /\ found # {})
                  => /\ call.res.isVerified
                     /\ ~call.res.err
                     /\ \E d \in found : call.res.nip5 = d.Username \o Domain
            /\ call.res.isVerified => (~call.res.err /\ ~failed /\ found # {})

\* verifyNIP5FromDB of main.go has returned for the key of alice with the
\* directory reachable: verified, under her label
C27_Witness ==
    /\ call.fn = "verifyNIP5FromDB"
    /\ call.done
    /\ call.arg = [pubkey |-> HexA, reachable |-> TRUE]
    /\ call.res = [isVerified |-> TRUE, nip5 |-> <<"a", "l">> \o Domain, err |-> FALSE]

\* the event refers to the watch entry: a p tag carries its identity (in
\* hex, as on the wire, or as npub), or the content contains its npub, or,
\* whatever the case of the letters, its non-empty display name or the
\* registered alias of that name
RefersTo(event, user, hex) ==
    LET lower == ToLower(event.Content)
    IN  \/ HasPTag(event, hex)
        \/ HasPTag(event, user.NostrNpub)
        \/ Contains(event.Content, user.NostrNpub)
        \/ user.Username # <<>> /\ Contains(lower, ToLower(user.Username))
        \/ \E ab \in abbreviations : ab[1] = user.Username /\ Contains(lower, ab[2])

\* C29 (as claimed): mentionsUser returns true for a note and a watch entry
\* exactly when the note refers to the entry.
C29_MentionMatching ==
    (call.fn = "mentionsUser" /\ call.done) =>
        (call.res <=> RefersTo(call.arg.event, call.arg.user, call.arg.hex))

\* C30: for a 32-byte identity x in hex, hexToNpub(x) and npubToHex of its
\* result succeed and npubToHex returns the bytes of x, in lower-case hex: x
\* itself when x is in lower case.
C30_RoundTrip ==
    (call.fn = "npubToHex(hexToNpub)" /\ call.done) =>
        /\ ~call.res.enc.err
        /\ ~call.res.dec.err
        /\ Len(call.res.dec.hex) = 64
        /\ HexDecode(call.res.dec.hex) = HexDecode(call.arg)
        /\ (\A i \in 1..Len(call.arg) : call.arg[i] \notin Range(UpperChars))
              => call.res.dec.hex = call.arg

\* the round trip was made for a 32-byte identity whose bytes differ, and
\* gave it back
C30_Witness ==
    /\ call.fn = "npubToHex(hexToNpub)"
    /\ call.done
    /\ Len(call.arg) = 64
    /\ \E i \in 1..62 : call.arg[i] # call.arg[i + 2]
    /\ Len(call.res.enc.npub) = 63
    /\ call.res.dec = [err |-> FALSE, hex |-> call.arg]

\* the step of relay r is a lookup that failed: a lookup was made for a
\* matched user and a fault was counted
FailedLookup(r) ==
    /\ pc[r] = "route"
    /\ todo'[r] # todo[r]
    /\ lookups' # lookups
    /\ faults' = faults + 1

\* C28: without --skip-nip5 a lookup that fails queues no job and writes no
\* row, leaves the sender unverified, and leaves the task in the loop over
\* the matched users; a task in that loop can always go on, with the next
\* user or by returning to the next frame; no task is at the e-mail call or
\* at the mark with an unverified sender.
C28_FailClosed ==
    /\ [](~skipNIP5 => \A r \in Relays : pc[r] \in {"send", "mark"} => isVerified[r])
    /\ [](\A r \in Relays :
            pc[r] = "route"
                => ENABLED (\/ FinishEvent(r)
                            \/ \E u \in Users : RejectDM(r, u) \/ Verify(r, u, TRUE)))
    /\ [][\A r \in Relays :
            (~skipNIP5 /\ FailedLookup(r))
                => /\ pc'[r] = "route"
                   /\ ~isVerified'[r]
                   /\ jobs' = jobs
                   /\ store' = store
                   /\ todo'[r] \subseteq todo[r]
                   /\ cur'[r] = cur[r]]_vars

\* without --skip-nip5 the lookup of a sender who has a directory document
\* failed for a matched user; the task has returned from the process
\* function and the event has no job and no row
C28_Witness ==
    /\ ~skipNIP5
    /\ faults = 1
    /\ \E r \in Relays :
          /\ Returned(r)
          /\ Verifiable(cur[r].PubKey)
          /\ ~isVerified[r]
          /\ LookupCount(cur[r], usr[r].Email) = 1
          /\ Rows(cur[r].ID) = {}
          /\ \A u \in Users : JobCount(cur[r].ID, u.Email) = 0

\* the number of bytes npubToHex regroups the data part of s into, -1 when
\* the decoding or the regrouping fails
PayloadBytes(s) ==
    LET d == CHOOSE r \in {Bech32Decode(v) : v \in {s}} : TRUE
    IN  IF d.err THEN -1
        ELSE IF ConvertBitsNoPad(d.data, 5, 8).err THEN -1
        ELSE Len(ConvertBitsNoPad(d.data, 5, 8).v)

\* C31: npubToHex returns an error and the empty string whenever the prefix
\* is not "npub", the checksum or the regrouping fails, or the payload is not
\* exactly 32 bytes long.
C31_DecodeFails ==
    (call.fn = "npubToHex" /\ call.done /\ PayloadBytes(call.arg) # 32)
        => call.res = [err |-> TRUE, hex |-> <<>>]

\* C32: for a pubkey that is not hex, neither hexToNpub nor the filter of the
\* directory query carries a string that begins with "npub1".
C32_NoPlaceholderIdentity ==
    (call.fn = "hexToNpub" /\ call.done /\ ~HexOk(call.arg))
        => /\ SubSeq(call.res.npub, 1, 5) # <<"n", "p", "u", "b", "1">>
           /\ SubSeq(call.res.filter.nostrNpub, 1, 5) # <<"n", "p", "u", "b", "1">>

\* relay r takes a frame off its connection in this step
ReadsFrame(r) == cur'[r] \notin {cur[r], NoEvent} \/ dropped'[r] # dropped[r]

\* C33: on one connection a frame is read only when no frame is in work on
\* it (the loop is at ReadMessage, with no event and no user left over), the
\* event in work is never replaced by another one, and every lookup, job and
\* row that appears belongs to the event in work on the connection whose
\* task is at that step.
C33_FramesInOrder ==
    /\ [](\A r \in Relays :
            /\ (cur[r] = NoEvent) <=> (pc[r] \in {"idle", "read", "exit"})
            /\ cur[r] = NoEvent => todo[r] = {})
    /\ [][\A r \in Relays :
            /\ ReadsFrame(r) => pc[r] = "read" /\ cur[r] = NoEvent /\ todo[r] = {}
            /\ cur[r] # NoEvent => cur'[r] \in {cur[r], NoEvent}]_vars
    /\ [][/\ \A row \in store' \ store :
               pc[row.relay_url] = "mark" /\ cur[row.relay_url].ID = row.event_id
          /\ jobs' # jobs =>
               \E r \in Relays :
                  /\ pc[r] = "send"
                  /\ \A j \in DOMAIN jobs' :
                        CopiesIn(j, jobs') > CopiesIn(j, jobs) => j.EventID = cur[r].ID
          /\ lookups' # lookups =>
               \E r \in Relays :
                  /\ pc[r] = "route"
                  /\ \A l \in DOMAIN lookups' :
                        CopiesIn(l, lookups') > CopiesIn(l, lookups)
                            => l.EventID = cur[r].ID]_vars

\* a connection has a second frame at the dedup check after the event of an
\* earlier frame went through to its row
C33_Witness ==
    \E r \in Relays :
        /\ pc[r] = "check"
        /\ \E row \in store : row.relay_url = r /\ row.event_id # cur[r].ID

\* every job handed over has had its one call of SendEmail
AllAttempted == \A j \in BagToSet(jobs) : Attempts(j) = CopiesIn(j, jobs)

C35_RecordHasJob ==
    \A row \in store :
        EventOf(row.event_id).Kind = 4
            => \E j \in BagToSet(jobs) : j.EventID = row.event_id

\* the labels "<username>@trustroots.org" of the directory documents whose
\* nostrNpub is the npub form of a sender key
LabelsOf(pubkey) ==
    {d.Username \o Domain : d \in {x \in Directory : x.NostrNpub = Npub(pubkey)}}

\* a label is one the claim allows for a sender under the flag
LabelAllowed(label, pubkey) ==
    /\ label \in LabelsOf(pubkey) \cup {Fallback}
    /\ label = Fallback => skipNIP5
    /\ ~skipNIP5 => label \in LabelsOf(pubkey) /\ label # <<>>

C37_CheckFailureDrops ==
    /\ [][\A t \in DOMAIN pc :
            (pc[t] = "check" /\ pc'[t] # "check" /\ faults' # faults)
                => /\ pc'[t] = "read"
                   /\ cur'[t] = NoEvent
                   /\ todo'[t] = {}
                   /\ store' = store
                   /\ jobs' = jobs
                   /\ lookups' = lookups
                   /\ skipped' = skipped]_vars
    /\ [](\A r \in Relays :
            (pc[r] = "read" /\ delivered < MaxDeliveries)
                => ENABLED (\E e \in Events : ReadEvent(r, e)))

\* the one failure was the query of isNoteProcessed (nothing was looked up,
\* queued or stored), and a task has read the next frame
C37_Witness ==
    /\ faults = 1
    /\ delivered = 2
    /\ lookups = EmptyBag
    /\ jobs = EmptyBag
    /\ store = {}
    /\ skipped = {}
    /\ \E r \in Relays : pc[r] = "check" /\ \A q \in Relays \ {r} : pc[q] = "read"

\* the kind-4 events with a p tag of a watched user whose content is not
\* standard base64
RejectedEvents ==
    {e \in Events : /\ e.Kind = 4
                    /\ ~Base64Ok(e.Content)
                    /\ \E u \in Users : HasPTag(e, u.NostrNpub)}

\* C38: a kind-4 event addressed to a watched user whose content is not
\* standard base64 never has a lookup, a job or a row, is never skipped as
\* processed, and no task is at the e-mail call or at the mark with it; the
\* step that rejects it leaves the task in the loop over the matched users.
C38_InvalidDMRejected ==
    /\ [](\A e \in RejectedEvents :
            /\ Rows(e.ID) = {}
            /\ e.ID \notin skipped
            /\ \A j \in BagToSet(jobs) : j.EventID # e.ID
            /\ \A l \in BagToSet(lookups) : l.EventID # e.ID
            /\ \A r \in Relays : cur[r] = e => pc[r] \in {"check", "route"})
    /\ [][\A r \in Relays :
            (cur[r] \in RejectedEvents /\ pc[r] = "route" /\ todo'[r] # todo[r])
                => /\ pc'[r] = "route"
                   /\ cur'[r] = cur[r]
                   /\ todo'[r] \subseteq todo[r]
                   /\ ~isVerified'[r]]_vars

\* a task has rejected such an event for its addressee while the same event,
\* delivered by the other relay, has passed the dedup check again
C38_Witness ==
    \E r, q \in Relays :
        /\ r # q
        /\ cur[r] \in RejectedEvents
        /\ Returned(r)
        /\ todo[r] = {}
        /\ cur[q] = cur[r]
        /\ JustRouted(q)
        /\ todo[q] = {usr[r]}

\* C39: the pooled listener is one task; it takes an event off the
\* subscription only when no event is in work (the check, the dispatch and
\* the mark of the event before are over), and, while every mark succeeds,
\* no event id has more than one job for a recipient, from however many
\* relays it arrives.
C39_PoolSequential ==
    /\ [](DOMAIN pc = {Pool})
    /\ []((cur[Pool] = NoEvent) <=> (pc[Pool] = "read"))
    /\ [](cur[Pool] = NoEvent => todo[Pool] = {})
    /\ [][cur'[Pool] \notin {cur[Pool], NoEvent}
            => pc[Pool] = "read" /\ cur[Pool] = NoEvent /\ delivered' = delivered + 1]_vars
    /\ [][cur[Pool] # NoEvent => cur'[Pool] \in {cur[Pool], NoEvent}]_vars
    /\ [](\A id \in EventIDs : \A u \in Users : JobCount(id, u.Email) <= 1)

\* an event that has its job and its row has arrived again, from the other
\* relay than the event in work before, and was skipped; its recipient still
\* has one job
C39_Witness ==
    /\ delivered = 2
    /\ pc[Pool] = "read"
    /\ \E id \in skipped :
          /\ Rows(id) # {}
          /\ \E u \in Users : JobCount(id, u.Email) = 1

====
